---- MODULE Spec2Model ----
(***************************************************************************)
(* QuickIt (src/src/extension.ts): the run supervisor                      *)
(* (runScriptCommand, executeQuickItTask), the custom-interpreter          *)
(* registry (registerInterpreter, resolveDescriptorForUri), the settings   *)
(* reads (getQuickItSettingValue), the interpreter resolver                *)
(* (resolveInterpreterCommand), the command line of a run                  *)
(* (buildRunCommand, quoteForCommandArgument), the validation and the      *)
(* normalization of script names (validateScriptNameInput,                 *)
(* normalizeScriptFileName), the scripts view                              *)
(* (ScriptsTreeProvider.getChildren), the watcher of the scripts directory *)
(* (watchScriptsDirectory) and the creation of a script                    *)
(* (quick-it.addScript).                                                   *)
(*                                                                         *)
(* Strings whose characters matter (extensions, commands, labels, file     *)
(* names) are sequences of one-character strings, so that trim(),          *)
(* toLowerCase(), startsWith() and path.extname() are computed and not     *)
(* assumed.  A value of type `T | undefined` is the empty sequence for     *)
(* undefined and the one-element sequence <<v>> for v.                     *)
(***************************************************************************)
EXTENDS Integers, Sequences, FiniteSets, TLC

VARIABLES
    runs,                \* one record per invocation of the quick-it.runScript handler
    lateSignal,          \* the kind of the last matching signal that found its listener disposed
    customInterpreters,  \* activate(): the Map customInterpreters
    handles,             \* the Disposables returned by registerInterpreter, in call order
    lastOp,              \* the last call made through the QuickItApi and what it did
    hasShownWorkspaceConfigurationWarning,  \* activate(): the flag of that name
    settingReads,        \* the calls of getQuickItSettingValue made so far, and the last one
    resolution,          \* the latest quick-it.runScript invocation, from its start to its launch
    built,               \* the last call of a descriptor's buildRunCommand
    validated,           \* the last call of validateScriptNameInput
    normalized,          \* the last call of normalizeScriptFileName
    tree,                \* the ScriptsTreeProvider: its flag, its calls in flight, its last answer
    watching,            \* scriptsDirectoryWatcher, the watchers made, the invocations suspended
    files,               \* the files of the scripts directory and their content
    adding               \* the invocations of the quick-it.addScript handler

vars == <<runs, lateSignal, customInterpreters, handles, lastOp,
          hasShownWorkspaceConfigurationWarning, settingReads, resolution, built, validated,
          normalized, tree, watching, files, adding>>
runVars == <<runs, lateSignal>>
regVars == <<customInterpreters, handles, lastOp>>
settingVars == <<hasShownWorkspaceConfigurationWarning, settingReads>>
pureVars == <<built, validated, normalized>>
viewVars == <<tree, watching, files, adding>>

\* Bounds of the model.
MaxRuns == 2
MaxHandles == 2
MaxPad == 1
MaxReads == 3
MaxPathLen == 3
MaxEntries == 3
MaxAdds == 2

Runs == 1..MaxRuns

Undefined == <<>>
Some(v) == <<v>>

(***************************************************************************)
(* Strings                                                                 *)
(***************************************************************************)

\* A string is a sequence of pieces.  In an extension, a command given to
\* registerInterpreter, a label given to it and a file name every piece is one
\* character; a fixed text of the program is one piece.

\* The letters of the model: the upper-case letter of each lower-case one.
UpperOf ==
    [p |-> "P", s |-> "S", y |-> "Y", j |-> "J", t |-> "T", z |-> "Z",
     h |-> "H", r |-> "R", b |-> "B", g |-> "G", o |-> "O",
     a |-> "A", c |-> "C", l |-> "L", m |-> "M", n |-> "N", u |-> "U", x |-> "X"]

\* The lower-case letter of each upper-case one.
LowerOf ==
    [P |-> "p", S |-> "s", Y |-> "y", J |-> "j", T |-> "t", Z |-> "z",
     H |-> "h", R |-> "r", B |-> "b", G |-> "g", O |-> "o",
     A |-> "a", C |-> "c", L |-> "l", M |-> "m", N |-> "n", U |-> "u", X |-> "x"]

\* White space as String.prototype.trim() sees it.
WhiteSpace == {" ", "\t"}

ToLowerChar(c) == IF c \in DOMAIN LowerOf THEN LowerOf[c] ELSE c

ToUpperChar(c) == IF c \in DOMAIN UpperOf THEN UpperOf[c] ELSE c

RECURSIVE toLowerCase(_)
\* String.prototype.toLowerCase().
toLowerCase(s) ==
    IF s = <<>> THEN <<>> ELSE <<ToLowerChar(Head(s))>> \o toLowerCase(Tail(s))

RECURSIVE trimStart(_)
trimStart(s) ==
    IF s # <<>> /\ Head(s) \in WhiteSpace THEN trimStart(Tail(s)) ELSE s

RECURSIVE trimEnd(_)
trimEnd(s) ==
    IF s # <<>> /\ s[Len(s)] \in WhiteSpace THEN trimEnd(SubSeq(s, 1, Len(s) - 1)) ELSE s

\* String.prototype.trim().
trim(s) == trimEnd(trimStart(s))

\* normalizeExtension without toLowerCase().
normalizeExtension_CaseSensitive(extension) ==
    LET normalizedValue == trim(extension)
    IN  IF normalizedValue = <<>>
        THEN <<>>
        ELSE IF Head(normalizedValue) = "." THEN normalizedValue ELSE <<".">> \o normalizedValue

normalizeExtension(extension) ==
    LET normalizedValue == toLowerCase(trim(extension))
    IN  IF normalizedValue = <<>>
        THEN <<>>
        ELSE IF Head(normalizedValue) = "." THEN normalizedValue ELSE <<".">> \o normalizedValue

\* path.basename(p): what follows the last separator.
basename(p) ==
    LET separators == {i \in 1..Len(p) : p[i] = "/"}
    IN  IF separators = {}
        THEN p
        ELSE SubSeq(p, (CHOOSE i \in separators : \A j \in separators : j <= i) + 1, Len(p))

\* path.extname(p): from the last dot of the base name to its end; empty when
\* the base name has no dot, starts with its only dot, or is "..".
extname(p) ==
    LET base == basename(p)
        dots == {i \in 1..Len(base) : base[i] = "."}
        lastDot == CHOOSE i \in dots : \A j \in dots : j <= i
    IN  IF dots = {} \/ lastDot = 1 \/ base = <<".", ".">>
        THEN <<>>
        ELSE SubSeq(base, lastDot, Len(base))

(***************************************************************************)
(* Run supervisor                                                          *)
(***************************************************************************)

\* event.exitCode of a TaskProcessEndEvent: number | undefined.
ExitCodes == {Undefined, Some(0), Some(1)}

\* What executeTask may reject with.
LaunchErrors == {"task-rejected", "no-terminal"}

\* event.execution.task.definition of an end event: undefined, or a definition
\* of this extension ('quick-it') or of another task provider, carrying a runId
\* (0: none, or a handle no run of this model owns).
Definitions ==
    {[defined |-> FALSE, type |-> "", runId |-> 0]}
        \cup [defined : {TRUE}, type : {"quick-it", "shell"}, runId : 0..MaxRuns]

\* The promise built by executeQuickItTask.
Pending == [state |-> "pending", value |-> Undefined, error |-> ""]
Resolved(exitCode) == [state |-> "resolved", value |-> exitCode, error |-> ""]
Rejected(error) == [state |-> "rejected", value |-> Undefined, error |-> error]

\* resolve()/reject() of a promise act on a pending promise only.
PromiseSettle(outcome, result) == IF outcome.state = "pending" THEN result ELSE outcome

\* What made a run settle: the kind of signal, the task definition it carried
\* and its payload (the exit code of a process end, the error of a launch).
NoSignal == [kind |-> "none", type |-> "", runId |-> 0, payload |-> Undefined]
BySignal(kind, definition, payload) ==
    [kind |-> kind, type |-> definition.type, runId |-> definition.runId, payload |-> payload]

\* vscode.window.show{Information,Warning,Error}Message calls of the handler.
Message(level, text, detail) == [level |-> level, text |-> text, detail |-> detail]

InitialRun ==
    [pc |-> "idle",
     runId |-> 0,
     settled |-> FALSE,
     endTaskProcessSubscription |-> "none",
     endTaskSubscription |-> "none",
     processDisposals |-> 0,
     taskDisposals |-> 0,
     liveAtLaunch |-> {},
     launch |-> "none",
     outcome |-> Pending,
     callbackCalls |-> 0,
     settledBy |-> NoSignal,
     notifications |-> <<>>]

\* createRunId: time prefix plus random suffix.  Every run of the model gets a
\* handle no other run has (the handle of run r is r).
createRunId(r) == r

\* settle without its `settled` guard.
settle_Unguarded(st, result, by) ==
    [st EXCEPT !.settled = TRUE,
               !.endTaskSubscription = "disposed",
               !.taskDisposals = @ + 1,
               !.endTaskProcessSubscription = "disposed",
               !.processDisposals = @ + 1,
               !.outcome = PromiseSettle(@, result),
               !.callbackCalls = @ + 1,
               !.settledBy = by]

\* settle (inside executeQuickItTask): the first call disposes both
\* subscriptions and runs the callback; every later call returns at once.
settle(st, result, by) ==
    IF st.settled
    THEN st
    ELSE [st EXCEPT !.settled = TRUE,
                    !.endTaskSubscription = "disposed",
                    !.taskDisposals = @ + 1,
                    !.endTaskProcessSubscription = "disposed",
                    !.processDisposals = @ + 1,
                    !.outcome = PromiseSettle(@, result),
                    !.callbackCalls = @ + 1,
                    !.settledBy = by]

\* The filter without the comparison of the run handle.
MatchesRun_AnyHandle(definition, runId) ==
    /\ definition.defined
    /\ definition.type = "quick-it"

\* The filter both listeners apply to event.execution.task.definition.
MatchesRun(definition, runId) ==
    /\ definition.defined
    /\ definition.type = "quick-it"
    /\ definition.runId = runId

\* The listener given to vscode.tasks.onDidEndTaskProcess.
onDidEndTaskProcess(st, definition, exitCode) ==
    IF ~MatchesRun(definition, st.runId)
    THEN st
    ELSE settle(st, Resolved(exitCode), BySignal("process", definition, exitCode))

\* The task-end listener resolving with exit code 0 instead of undefined.
onDidEndTask_ResolvesZero(st, definition) ==
    IF ~MatchesRun(definition, st.runId)
    THEN st
    ELSE settle(st, Resolved(Some(0)), BySignal("task", definition, Undefined))

\* The listener given to vscode.tasks.onDidEndTask.
onDidEndTask(st, definition) ==
    IF ~MatchesRun(definition, st.runId)
    THEN st
    ELSE settle(st, Resolved(Undefined), BySignal("task", definition, Undefined))

\* The rejection callback calling reject(error) directly, not through settle.
onLaunchRejected_NoSettle(st, error) ==
    [st EXCEPT !.outcome = PromiseSettle(@, Rejected(error)),
               !.callbackCalls = @ + 1]

\* The rejection callback given to executeTask(task).then.
onLaunchRejected(st, error) ==
    settle(st, Rejected(error),
           [kind |-> "launch", type |-> "quick-it", runId |-> st.runId, payload |-> Some(error)])

\* executeQuickItTask requesting the launch before it subscribes to onDidEndTask.
executeQuickItTask_LaunchFirst(st) ==
    LET subscribed == [st EXCEPT !.settled = FALSE,
                                 !.endTaskProcessSubscription = "live"]
        launched ==
            [subscribed EXCEPT
                !.launch = "pending",
                !.liveAtLaunch =
                    (IF subscribed.endTaskProcessSubscription = "live" THEN {"process"} ELSE {})
                        \cup (IF subscribed.endTaskSubscription = "live" THEN {"task"} ELSE {})]
    IN  [launched EXCEPT !.endTaskSubscription = "live"]

\* executeQuickItTask up to the return of the Promise executor: settled = false,
\* both listeners subscribed, then executeTask requested.
executeQuickItTask(st) ==
    LET subscribed == [st EXCEPT !.settled = FALSE,
                                 !.endTaskProcessSubscription = "live",
                                 !.endTaskSubscription = "live"]
    IN  [subscribed EXCEPT
            !.launch = "pending",
            !.liveAtLaunch =
                (IF subscribed.endTaskProcessSubscription = "live" THEN {"process"} ELSE {})
                    \cup (IF subscribed.endTaskSubscription = "live" THEN {"task"} ELSE {})]

\* The continuation testing `exitCode === 0` only.
runScriptResume_ZeroOnly(st) ==
    IF st.outcome.state = "resolved"
    THEN IF st.outcome.value = Some(0)
         THEN [st EXCEPT !.pc = "done",
                         !.notifications = Append(@, Message("info", "Finished", Undefined))]
         ELSE [st EXCEPT !.pc = "done",
                         !.notifications =
                             Append(@, Message("warning", "Finished (exit code)", st.outcome.value))]
    ELSE [st EXCEPT !.pc = "done",
                    !.notifications =
                        Append(@, Message("error", "QuickIt failed to run the selected script",
                                          Some(st.outcome.error)))]

\* The continuation that goes on waiting when the task ended without an exit
\* code.
runScriptResume_WaitsForExitCode(st) ==
    IF st.outcome.state = "resolved" /\ st.outcome.value = Undefined
    THEN st
    ELSE IF st.outcome.state = "resolved"
    THEN IF st.outcome.value = Some(0)
         THEN [st EXCEPT !.pc = "done",
                         !.notifications = Append(@, Message("info", "Finished", Undefined))]
         ELSE [st EXCEPT !.pc = "done",
                         !.notifications =
                             Append(@, Message("warning", "Finished (exit code)", st.outcome.value))]
    ELSE [st EXCEPT !.pc = "done",
                    !.notifications =
                        Append(@, Message("error", "QuickIt failed to run the selected script",
                                          Some(st.outcome.error)))]

\* The continuation of `await executeQuickItTask(task, runId)` in the handler,
\* with its catch clause.
runScriptResume(st) ==
    IF st.outcome.state = "resolved"
    THEN IF st.outcome.value = Undefined \/ st.outcome.value = Some(0)
         THEN [st EXCEPT !.pc = "done",
                         !.notifications = Append(@, Message("info", "Finished", Undefined))]
         ELSE [st EXCEPT !.pc = "done",
                         !.notifications =
                             Append(@, Message("warning", "Finished (exit code)", st.outcome.value))]
    ELSE [st EXCEPT !.pc = "done",
                    !.notifications =
                        Append(@, Message("error", "QuickIt failed to run the selected script",
                                          Some(st.outcome.error)))]

\* An event emitter of the host calls the listeners that are subscribed, and
\* no listener that was disposed.
Deliver(subscription, st, handled) == IF subscription = "live" THEN handled ELSE st

\* A signal that carries the handle of a run whose listener is disposed reaches
\* no listener; its kind is noted.
LateSignal(kind, definition, disposed) ==
    IF \E r \in disposed : MatchesRun(definition, runs[r].runId)
    THEN kind
    ELSE lateSignal

\* quick-it.runScript, first segment: the item check, then the handler is
\* suspended in resolveInterpreterCommand.
RunScriptCommand(r, hasItem) ==
    /\ runs[r].pc = "idle"
    /\ runs' = [runs EXCEPT ![r] =
                   IF ~hasItem
                   THEN [@ EXCEPT !.pc = "done",
                                  !.notifications =
                                      Append(@, Message("error", "No QuickIt script selected.", Undefined))]
                   ELSE [@ EXCEPT !.pc = "resolving"]]
    /\ UNCHANGED <<lateSignal, regVars, settingVars, resolution, pureVars, viewVars>>

\* resolveInterpreterCommand returned.
InterpreterResolved(r, found) ==
    /\ runs[r].pc = "resolving"
    /\ runs' = [runs EXCEPT ![r] =
                   IF ~found
                   THEN [@ EXCEPT !.pc = "done",
                                  !.notifications =
                                      Append(@, Message("error", "No interpreter found", Undefined))]
                   ELSE [@ EXCEPT !.pc = "checking"]]
    /\ UNCHANGED <<lateSignal, regVars, settingVars, resolution, pureVars, viewVars>>

\* isCommandAvailable returned; when available the task is built and
\* executeQuickItTask runs up to its await.
AvailabilityChecked(r, available) ==
    /\ runs[r].pc = "checking"
    /\ runs' = [runs EXCEPT ![r] =
                   IF ~available
                   THEN [@ EXCEPT !.pc = "done",
                                  !.notifications =
                                      Append(@, Message("error", "Interpreter was not found on PATH.", Undefined))]
                   ELSE executeQuickItTask(
                            [@ EXCEPT !.pc = "awaiting",
                                      !.runId = createRunId(r),
                                      !.notifications =
                                          Append(@, Message("info", "Executing", Undefined))])]
    /\ UNCHANGED <<lateSignal, regVars, settingVars, resolution, pureVars, viewVars>>

\* The host fires onDidEndTaskProcess.
FireEndTaskProcess(definition, exitCode) ==
    /\ runs' = [r \in Runs |->
                   Deliver(runs[r].endTaskProcessSubscription, runs[r],
                           onDidEndTaskProcess(runs[r], definition, exitCode))]
    /\ lateSignal' = LateSignal("process", definition,
                              {r \in Runs : runs[r].endTaskProcessSubscription = "disposed"})
    /\ UNCHANGED <<regVars, settingVars, resolution, pureVars, viewVars>>

\* The host fires onDidEndTask.
FireEndTask(definition) ==
    /\ runs' = [r \in Runs |->
                   Deliver(runs[r].endTaskSubscription, runs[r], onDidEndTask(runs[r], definition))]
    /\ lateSignal' = LateSignal("task", definition,
                              {r \in Runs : runs[r].endTaskSubscription = "disposed"})
    /\ UNCHANGED <<regVars, settingVars, resolution, pureVars, viewVars>>

\* The thenable of executeTask is fulfilled: () => undefined.
LaunchFulfilled(r) ==
    /\ runs[r].launch = "pending"
    /\ runs' = [runs EXCEPT ![r].launch = "fulfilled"]
    /\ UNCHANGED <<lateSignal, regVars, settingVars, resolution, pureVars, viewVars>>

\* The thenable of executeTask is rejected: settle(() => reject(error)).
LaunchRejected(r, error) ==
    /\ runs[r].launch = "pending"
    /\ runs' = [runs EXCEPT ![r] = onLaunchRejected([@ EXCEPT !.launch = "rejected"], error)]
    /\ UNCHANGED <<lateSignal, regVars, settingVars, resolution, pureVars, viewVars>>

\* The promise of executeQuickItTask is settled: the handler resumes.
RunScriptResume(r) ==
    /\ runs[r].pc = "awaiting"
    /\ runs[r].outcome.state # "pending"
    /\ runs' = [runs EXCEPT ![r] = runScriptResume(@)]
    /\ UNCHANGED <<lateSignal, regVars, settingVars, resolution, pureVars, viewVars>>

(***************************************************************************)
(* Descriptor registry                                                     *)
(***************************************************************************)

Descriptor(extension, label, interpreterSetting, defaultInterpreters, runCommand) ==
    [extension |-> extension,
     label |-> label,
     interpreterSetting |-> interpreterSetting,
     defaultInterpreters |-> defaultInterpreters,
     runCommand |-> runCommand]

\* BUILTIN_SCRIPT_DESCRIPTORS, in the order of the source.  runCommand names
\* the shape buildRunCommand gives the command line.
BUILTIN_SCRIPT_DESCRIPTORS ==
    <<Descriptor(<<".", "p", "s", "1">>, <<"PowerShell (.ps1)">>, Some("interpreters.powershell"),
                 <<(<<"pwsh">>), (<<"powershell">>)>>, "powershell -File"),
      Descriptor(<<".", "s", "h">>, <<"Bash (.sh)">>, Some("interpreters.bash"),
                 <<(<<"bash">>)>>, "interpreter path"),
      Descriptor(<<".", "z", "s", "h">>, <<"Zsh (.zsh)">>, Some("interpreters.bash"),
                 <<(<<"bash">>)>>, "interpreter path"),
      Descriptor(<<".", "p", "y">>, <<"Python (.py)">>, Some("interpreters.python"),
                 <<(<<"python">>)>>, "interpreter path"),
      Descriptor(<<".", "j", "s">>, <<"JavaScript (.js)">>, Some("interpreters.node"),
                 <<(<<"node">>)>>, "interpreter path"),
      Descriptor(<<".", "t", "s">>, <<"TypeScript (.ts)">>, Some("interpreters.tsNode"),
                 <<(<<"ts-node">>)>>, "interpreter path")>>

\* BUILTIN_BY_EXTENSION: the keys, and Map.get for a key that is present.
BuiltinExtensions ==
    {BUILTIN_SCRIPT_DESCRIPTORS[i].extension : i \in 1..Len(BUILTIN_SCRIPT_DESCRIPTORS)}

BUILTIN_BY_EXTENSION(extension) ==
    BUILTIN_SCRIPT_DESCRIPTORS[
        CHOOSE i \in 1..Len(BUILTIN_SCRIPT_DESCRIPTORS) :
            /\ BUILTIN_SCRIPT_DESCRIPTORS[i].extension = extension
            /\ \A j \in i + 1..Len(BUILTIN_SCRIPT_DESCRIPTORS) :
                  BUILTIN_SCRIPT_DESCRIPTORS[j].extension # extension]

\* Map.prototype.set and Map.prototype.delete on customInterpreters.
MapSet(map, key, value) == [k \in DOMAIN map \cup {key} |-> IF k = key THEN value ELSE map[k]]
MapDelete(map, key) == [k \in DOMAIN map \ {key} |-> map[k]]

\* `Custom (${extension})`.
CustomLabel(extension) == <<"Custom (">> \o extension \o <<")">>

\* resolveDescriptorForUri comparing the extension as it is written in the
\* file name.
resolveDescriptorForUri_AsWritten(registry, fsPath) ==
    LET extension == extname(fsPath)
    IN  IF extension \in BuiltinExtensions
        THEN Some(BUILTIN_BY_EXTENSION(extension))
        ELSE IF extension \notin DOMAIN registry
             THEN Undefined
             ELSE LET customInterpreter == registry[extension]
                      trimmedLabel ==
                          IF customInterpreter.label = Undefined
                          THEN <<>>
                          ELSE trim(customInterpreter.label[1])
                  IN  Some(Descriptor(extension,
                                      IF trimmedLabel # <<>> THEN trimmedLabel ELSE CustomLabel(extension),
                                      Undefined,
                                      <<customInterpreter.command>>,
                                      "interpreter path"))

\* resolveDescriptorForUri, for the custom-interpreter map `registry`:
\* undefined, or the descriptor.
resolveDescriptorForUri(registry, fsPath) ==
    LET extension == normalizeExtension(extname(fsPath))
    IN  IF extension \in BuiltinExtensions
        THEN Some(BUILTIN_BY_EXTENSION(extension))
        ELSE IF extension \notin DOMAIN registry
             THEN Undefined
             ELSE LET customInterpreter == registry[extension]
                      trimmedLabel ==
                          IF customInterpreter.label = Undefined
                          THEN <<>>
                          ELSE trim(customInterpreter.label[1])
                  IN  Some(Descriptor(extension,
                                      IF trimmedLabel # <<>> THEN trimmedLabel ELSE CustomLabel(extension),
                                      Undefined,
                                      <<customInterpreter.command>>,
                                      "interpreter path"))

\* What a call through the API did: whether it threw, the map it left, the
\* refreshes of the tree view it fired and the closure it returned.
ApiResult(threw, registry, refreshes, disposable) ==
    [threw |-> threw, customInterpreters |-> registry, refreshes |-> refreshes,
     disposable |-> disposable]

\* registerInterpreter without the check of the command.
registerInterpreter_NoCommandCheck(registry, extension, command, label) ==
    LET normalizedExtension == normalizeExtension(extension)
        normalizedCommand == trim(command)
    IN  IF normalizedExtension = <<>>
        THEN ApiResult(TRUE, registry, 0, Undefined)
        ELSE IF normalizedExtension \in BuiltinExtensions
        THEN ApiResult(TRUE, registry, 0, Undefined)
        ELSE ApiResult(FALSE,
                       MapSet(registry, normalizedExtension,
                              [command |-> normalizedCommand, label |-> label]),
                       1,
                       Some([extension |-> normalizedExtension,
                             command |-> normalizedCommand,
                             label |-> label]))

\* registerInterpreter keeping the letter case of the extension in the key.
registerInterpreter_KeyAsWritten(registry, extension, command, label) ==
    LET normalizedExtension == normalizeExtension_CaseSensitive(extension)
        normalizedCommand == trim(command)
    IN  IF normalizedExtension = <<>>
        THEN ApiResult(TRUE, registry, 0, Undefined)
        ELSE IF normalizedCommand = <<>>
        THEN ApiResult(TRUE, registry, 0, Undefined)
        ELSE IF normalizeExtension(extension) \in BuiltinExtensions
        THEN ApiResult(TRUE, registry, 0, Undefined)
        ELSE ApiResult(FALSE,
                       MapSet(registry, normalizedExtension,
                              [command |-> normalizedCommand, label |-> label]),
                       1,
                       Some([extension |-> normalizedExtension,
                             command |-> normalizedCommand,
                             label |-> label]))

\* api.registerInterpreter.  The closure of the Disposable holds
\* normalizedExtension and normalizedCommand; `label` is kept with it as the
\* label of that registration.
registerInterpreter(registry, extension, command, label) ==
    LET normalizedExtension == normalizeExtension(extension)
        normalizedCommand == trim(command)
    IN  IF normalizedExtension = <<>>
        THEN ApiResult(TRUE, registry, 0, Undefined)
        ELSE IF normalizedCommand = <<>>
        THEN ApiResult(TRUE, registry, 0, Undefined)
        ELSE IF normalizedExtension \in BuiltinExtensions
        THEN ApiResult(TRUE, registry, 0, Undefined)
        ELSE ApiResult(FALSE,
                       MapSet(registry, normalizedExtension,
                              [command |-> normalizedCommand, label |-> label]),
                       1,
                       Some([extension |-> normalizedExtension,
                             command |-> normalizedCommand,
                             label |-> label]))

\* The callback of the Disposable refreshing the view before it looks at the
\* entry.
disposeRegistration_RefreshesFirst(registry, handle) ==
    IF \/ handle.extension \notin DOMAIN registry
       \/ registry[handle.extension].command # handle.command
    THEN ApiResult(FALSE, registry, 1, Undefined)
    ELSE ApiResult(FALSE, MapDelete(registry, handle.extension), 1, Undefined)

\* The callback of the Disposable removing the entry without comparing commands.
disposeRegistration_AnyCommand(registry, handle) ==
    IF handle.extension \notin DOMAIN registry
    THEN ApiResult(FALSE, registry, 0, Undefined)
    ELSE ApiResult(FALSE, MapDelete(registry, handle.extension), 1, Undefined)

\* The callback of the Disposable returned by registerInterpreter.
disposeRegistration(registry, handle) ==
    IF \/ handle.extension \notin DOMAIN registry
       \/ registry[handle.extension].command # handle.command
    THEN ApiResult(FALSE, registry, 0, Undefined)
    ELSE ApiResult(FALSE, MapDelete(registry, handle.extension), 1, Undefined)

RECURSIVE Blanks(_)
\* k blanks.
Blanks(k) == IF k = 0 THEN <<>> ELSE <<" ">> \o Blanks(k - 1)

RECURSIVE CaseVariants(_)
\* The spellings of s in every mix of lower and upper case.
CaseVariants(s) ==
    IF s = <<>>
    THEN {<<>>}
    ELSE {<<c>> \o rest : c \in {Head(s), ToUpperChar(Head(s))}, rest \in CaseVariants(Tail(s))}

\* Every spelling of a built-in extension: with or without the leading dot,
\* in any letter case, with up to MaxPad blanks on either side.
BuiltinSpellings ==
    UNION {{Blanks(before) \o spelled \o Blanks(after) :
               before \in 0..MaxPad, after \in 0..MaxPad,
               spelled \in CaseVariants(builtin) \cup CaseVariants(Tail(builtin))} :
           builtin \in BuiltinExtensions}

\* The last call through the API: the operation, whether the extension given to
\* registerInterpreter is a spelling of a built-in one, the Disposable
\* returned or disposed, whether the call threw and the refreshes it fired.
Op(op, builtinSpelling, handle, threw, refreshes) ==
    [op |-> op, builtinSpelling |-> builtinSpelling, handle |-> handle, threw |-> threw,
     refreshes |-> refreshes]

\* Another extension calls registerInterpreter(extension, command, label).
RegisterInterpreter(extension, command, label) ==
    LET result == registerInterpreter(customInterpreters, extension, command, label)
    IN  /\ result.threw \/ Len(handles) < MaxHandles
        /\ customInterpreters' = result.customInterpreters
        /\ handles' = IF result.threw THEN handles ELSE Append(handles, result.disposable[1])
        /\ lastOp' = Op("register", extension \in BuiltinSpellings,
                        IF result.threw THEN 0 ELSE Len(handles) + 1,
                        result.threw, result.refreshes)
        /\ UNCHANGED <<runVars, settingVars, resolution, pureVars, viewVars>>

\* The holder of the h-th Disposable calls dispose().
DisposeHandle(h) ==
    LET result == disposeRegistration(customInterpreters, handles[h])
    IN  /\ customInterpreters' = result.customInterpreters
        /\ lastOp' = Op("dispose", FALSE, h, result.threw, result.refreshes)
        /\ UNCHANGED <<runVars, handles, settingVars, resolution, pureVars, viewVars>>

\* Arguments of registerInterpreter: extensions of no built-in, a built-in
\* one, one that is blank; commands, one of them blank; labels, none, one
\* with blanks around it and one that is blank.
ExtensionInputs == {<<".", "R", "b", " ">>, <<"g", "o">>, <<".", "P", "Y">>, <<" ">>}
CommandInputs == {<<" ", "ruby", " ">>, <<"irb">>, <<"\t">>}
LabelInputs == {Undefined, Some(<<" ", "R", "u", "b", "y", " ">>), Some(<<" ">>)}

\* File names given to resolveDescriptorForUri.
FileInputs ==
    {<<"a", ".", "r", "b">>, <<"/", "s", "/", "a", ".", "R", "B">>, <<"a", ".", "g", "o">>,
     <<"a", ".", "P", "y">>, <<"a", ".", "p", "s", "1">>, <<".", "r", "b">>, <<"r", "b">>,
     <<"a", ".", "r", "b", ".", "t">>}

(***************************************************************************)
(* Settings                                                                *)
(***************************************************************************)

\* The keys of the quickIt section that the extension reads.
SettingKeys ==
    {"scriptDirectory", "interpreters.powershell", "interpreters.bash", "interpreters.python",
     "interpreters.node", "interpreters.tsNode"}

\* What WorkspaceConfiguration.inspect reports of a key: its value in each
\* scope, a string or undefined.
Inspection(defaultValue, globalValue, workspaceValue, workspaceFolderValue) ==
    [defaultValue |-> defaultValue,
     globalValue |-> globalValue,
     workspaceValue |-> workspaceValue,
     workspaceFolderValue |-> workspaceFolderValue]

\* a ?? b.
NullishCoalesce(a, b) == IF a # Undefined THEN a ELSE b

\* WorkspaceConfiguration.inspect(settingPath): the host reports every key.
ConfigurationInspect(setting) == Some(setting)

\* WorkspaceConfiguration.get(settingPath): the value in effect, which is the
\* one of the narrowest scope that has one.
ConfigurationGet(setting) ==
    NullishCoalesce(setting.workspaceFolderValue,
        NullishCoalesce(setting.workspaceValue,
            NullishCoalesce(setting.globalValue, setting.defaultValue)))

normalizeOptionalString(value) ==
    LET trimmed == IF value = Undefined THEN Undefined ELSE Some(trim(value[1]))
    IN  IF trimmed # Undefined /\ trimmed[1] # <<>> THEN trimmed ELSE Undefined

\* getQuickItConfigurationValue, given what inspect(settingPath) and
\* get(settingPath) answer.
getQuickItConfigurationValue(inspected, effective) ==
    IF inspected = Undefined
    THEN [value |-> normalizeOptionalString(effective), hasWorkspaceOverride |-> FALSE]
    ELSE [value |->
              normalizeOptionalString(
                  NullishCoalesce(inspected[1].globalValue,
                      NullishCoalesce(inspected[1].defaultValue, effective))),
          hasWorkspaceOverride |->
              \/ inspected[1].workspaceValue # Undefined
              \/ inspected[1].workspaceFolderValue # Undefined]

\* getQuickItSettingValue showing the warning whenever an override is seen.
getQuickItSettingValue_WarnsEveryTime(hasShown, inspected, effective) ==
    LET read == getQuickItConfigurationValue(inspected, effective)
    IN  [value |-> read.value,
         hasShown |-> hasShown \/ read.hasWorkspaceOverride,
         warnings |-> IF read.hasWorkspaceOverride THEN 1 ELSE 0]

\* getQuickItSettingValue (in activate), for the flag
\* hasShownWorkspaceConfigurationWarning as it is at the call: the value
\* returned, the flag after the call and the warnings shown by the call.
getQuickItSettingValue(hasShown, inspected, effective) ==
    LET read == getQuickItConfigurationValue(inspected, effective)
        warns == read.hasWorkspaceOverride /\ ~hasShown
    IN  [value |-> read.value,
         hasShown |-> hasShown \/ warns,
         warnings |-> IF warns THEN 1 ELSE 0]

\* The record of the settings reads: how many there were, how many of them
\* were of a key with a workspace or workspace-folder value, the warnings
\* shown, and the last read.
NoReads == [reads |-> 0, overrides |-> 0, warnings |-> 0, last |-> Undefined]
RecordRead(record, settingPath, setting, result) ==
    [reads |-> record.reads + 1,
     overrides |->
         IF setting.workspaceValue # Undefined \/ setting.workspaceFolderValue # Undefined
         THEN record.overrides + 1
         ELSE record.overrides,
     warnings |-> record.warnings + result.warnings,
     last |-> Some([settingPath |-> settingPath, setting |-> setting, value |-> result.value])]

\* The values a key can have in each scope: none, an empty or blank one, one
\* with blanks around it.
DefaultValues == {Undefined, Some(<<>>), Some(<<"builtin", " ">>)}
GlobalValues ==
    {Undefined}
        \cup {Some(Blanks(k)) : k \in 0..MaxPad}
        \cup {Some(Blanks(before) \o <<"user">> \o Blanks(after)) :
                  before \in 0..MaxPad, after \in 0..MaxPad}
WorkspaceValues == {Undefined, Some(<<"workspace">>)}
WorkspaceFolderValues == {Undefined, Some(<<"folder">>)}
Settings ==
    {Inspection(defaultValue, globalValue, workspaceValue, workspaceFolderValue) :
         defaultValue \in DefaultValues, globalValue \in GlobalValues,
         workspaceValue \in WorkspaceValues, workspaceFolderValue \in WorkspaceFolderValues}

\* A caller (resolveScriptsDirectory for 'scriptDirectory',
\* resolveInterpreterCommand for the key of a descriptor) reads a key while
\* the configuration holds `setting` for it.
ReadSetting(settingPath, setting) ==
    LET result == getQuickItSettingValue(hasShownWorkspaceConfigurationWarning,
                                         ConfigurationInspect(setting), ConfigurationGet(setting))
    IN  /\ settingReads.reads < MaxReads
        /\ hasShownWorkspaceConfigurationWarning' = result.hasShown
        /\ settingReads' = RecordRead(settingReads, settingPath, setting, result)
        /\ UNCHANGED <<runVars, regVars, resolution, pureVars, viewVars>>

(***************************************************************************)
(* Interpreter resolver                                                    *)
(***************************************************************************)

\* isCommandAvailable(command), `found` being what the host answers for the
\* executable named by the command (stat of an absolute path, which/where.exe
\* of a name): a command with no executable token is unavailable.  The token
\* extractCommandToken takes is empty exactly when the trimmed command is.
isCommandAvailable(command, found) == IF trim(command) = <<>> THEN FALSE ELSE found

\* A ScriptItem of the tree: the path of the file and its descriptor.
ScriptItem(fsPath, descriptor) == [fsPath |-> fsPath, descriptor |-> descriptor]

\* The latest invocation of the quick-it.runScript handler, up to its launch.
InitialResolution ==
    [pc |-> "idle",
     item |-> Undefined,
     setting |-> Undefined,
     configuredValue |-> Undefined,
     candidate |-> 0,
     probes |-> <<>>,
     interpreterCommand |-> Undefined,
     check |-> Undefined,
     notifications |-> <<>>,
     runId |-> Undefined,
     task |-> Undefined]

\* The result of one isCommandAvailable call.
Probe(command, available) == [command |-> command, available |-> available]

\* The handler after `await resolveInterpreterCommand(item.descriptor)`: the
\* error, or the call isCommandAvailable(interpreterCommand).
runScriptResolved(st, interpreterCommand) ==
    IF interpreterCommand = Undefined
    THEN [st EXCEPT !.pc = "done",
                    !.notifications = Append(@, Message("error", "No interpreter found", Undefined))]
    ELSE [st EXCEPT !.pc = "checking", !.interpreterCommand = interpreterCommand]

\* resolveInterpreterCommand going on to the default candidates whatever the
\* configured value.
resolveInterpreterCommand_ProbesDefaults(st, descriptor, configuredValue) ==
    IF descriptor.defaultInterpreters = <<>>
    THEN runScriptResolved(st, configuredValue)
    ELSE [st EXCEPT !.pc = "probing", !.candidate = 1]

\* resolveInterpreterCommand up to its first await: configuredValue is what
\* getQuickItSettingValue returned for descriptor.interpreterSetting
\* (undefined when the descriptor names no key).
resolveInterpreterCommand(st, descriptor, configuredValue) ==
    IF descriptor.interpreterSetting # Undefined /\ configuredValue # Undefined
    THEN runScriptResolved(st, configuredValue)
    ELSE IF descriptor.defaultInterpreters = <<>>
         THEN runScriptResolved(st, Undefined)
         ELSE [st EXCEPT !.pc = "probing", !.candidate = 1]

\* The loop going on to the next candidate after one that is available.
resolveInterpreterCommandProbed_KeepsProbing(st, available) ==
    LET candidates == st.item[1].descriptor.defaultInterpreters
        probed == [st EXCEPT !.probes = Append(@, Probe(candidates[st.candidate], available))]
    IN  IF st.candidate < Len(candidates)
        THEN [probed EXCEPT !.candidate = @ + 1]
        ELSE runScriptResolved(probed,
                               IF available THEN Some(candidates[st.candidate]) ELSE Undefined)

\* The loop of resolveInterpreterCommand resuming with the answer of
\* isCommandAvailable(candidate).
resolveInterpreterCommandProbed(st, available) ==
    LET candidates == st.item[1].descriptor.defaultInterpreters
        probed == [st EXCEPT !.probes = Append(@, Probe(candidates[st.candidate], available))]
    IN  IF available
        THEN runScriptResolved(probed, Some(candidates[st.candidate]))
        ELSE IF st.candidate < Len(candidates)
             THEN [probed EXCEPT !.candidate = @ + 1]
             ELSE runScriptResolved(probed, Undefined)

\* The handler launching without looking at the answer of the check.
runScriptChecked_Unchecked(st, available) ==
    LET checked == [st EXCEPT !.check = Some(Probe(st.interpreterCommand[1], available))]
    IN  [checked EXCEPT
             !.pc = "launched",
             !.notifications = Append(@, Message("info", "Executing", Undefined)),
             !.runId = Some(createRunId(1)),
             !.task = Some([type |-> "quick-it",
                            runId |-> createRunId(1),
                            interpreter |-> st.interpreterCommand[1],
                            fsPath |-> st.item[1].fsPath])]

\* The handler after `await isCommandAvailable(interpreterCommand)`: the
\* error, or the run handle, the task and the call of executeQuickItTask.
runScriptChecked(st, available) ==
    LET checked == [st EXCEPT !.check = Some(Probe(st.interpreterCommand[1], available))]
    IN  IF ~available
        THEN [checked EXCEPT
                 !.pc = "done",
                 !.notifications =
                     Append(@, Message("error", "Interpreter was not found on PATH.", Undefined))]
        ELSE [checked EXCEPT
                 !.pc = "launched",
                 !.notifications = Append(@, Message("info", "Executing", Undefined)),
                 !.runId = Some(createRunId(1)),
                 !.task = Some([type |-> "quick-it",
                                runId |-> createRunId(1),
                                interpreter |-> st.interpreterCommand[1],
                                fsPath |-> st.item[1].fsPath])]

\* The items of the tree that are run: a PowerShell and a Bash script, and a
\* script of an extension another extension registered.
ScriptItems ==
    {ScriptItem(<<"/s/a.ps1">>, BUILTIN_BY_EXTENSION(<<".", "p", "s", "1">>)),
     ScriptItem(<<"/s/a.sh">>, BUILTIN_BY_EXTENSION(<<".", "s", "h">>)),
     ScriptItem(<<"/", "s", "/", "a", ".", "r", "b">>,
                resolveDescriptorForUri(
                    MapSet(<<>>, <<".", "r", "b">>, [command |-> <<"irb">>, label |-> Undefined]),
                    <<"/", "s", "/", "a", ".", "r", "b">>)[1])}

\* The configuration of the key of a descriptor when a script is run: no user
\* value, an empty one or one with blanks around it; no default or one; no
\* workspace value or one.
RunSettings ==
    {Inspection(defaultValue, globalValue, workspaceValue, Undefined) :
         defaultValue \in {Undefined, Some(<<"builtin", " ">>)},
         globalValue \in {Undefined, Some(<<>>),
                          Some(Blanks(MaxPad) \o <<"user">> \o Blanks(MaxPad))},
         workspaceValue \in WorkspaceValues}

\* quick-it.runScript is invoked: the item check, then resolveInterpreterCommand
\* up to its first await, the key of the descriptor being `setting` in the
\* configuration.
RunScriptStart(item, setting) ==
    LET descriptor == item[1].descriptor
        keyed == item # Undefined /\ descriptor.interpreterSetting # Undefined
        read == getQuickItSettingValue(hasShownWorkspaceConfigurationWarning,
                                       ConfigurationInspect(setting), ConfigurationGet(setting))
        started == [InitialResolution EXCEPT !.item = item]
    IN  /\ resolution.pc \in {"idle", "done", "launched"}
        /\ keyed => settingReads.reads < MaxReads
        /\ resolution' =
               IF item = Undefined
               THEN [started EXCEPT
                        !.pc = "done",
                        !.notifications =
                            Append(@, Message("error", "No QuickIt script selected.", Undefined))]
               ELSE IF keyed
               THEN resolveInterpreterCommand(
                        [started EXCEPT !.setting = Some(setting), !.configuredValue = read.value],
                        descriptor, read.value)
               ELSE resolveInterpreterCommand(started, descriptor, Undefined)
        /\ hasShownWorkspaceConfigurationWarning' =
               IF keyed THEN read.hasShown ELSE hasShownWorkspaceConfigurationWarning
        /\ settingReads' =
               IF keyed
               THEN RecordRead(settingReads, descriptor.interpreterSetting[1], setting, read)
               ELSE settingReads
        /\ UNCHANGED <<runVars, regVars, pureVars, viewVars>>

\* isCommandAvailable(candidate) answers inside resolveInterpreterCommand.
CandidateProbed(found) ==
    /\ resolution.pc = "probing"
    /\ resolution' =
           resolveInterpreterCommandProbed(
               resolution,
               isCommandAvailable(
                   resolution.item[1].descriptor.defaultInterpreters[resolution.candidate], found))
    /\ UNCHANGED <<runVars, regVars, settingVars, pureVars, viewVars>>

\* isCommandAvailable(interpreterCommand) answers inside the handler.
CommandChecked(found) ==
    /\ resolution.pc = "checking"
    /\ resolution' =
           runScriptChecked(resolution, isCommandAvailable(resolution.interpreterCommand[1], found))
    /\ UNCHANGED <<runVars, regVars, settingVars, pureVars, viewVars>>

(***************************************************************************)
(* Command line of a run                                                   *)
(***************************************************************************)

\* process.platform, as far as quoteForCommandArgument tells its values apart.
Platforms == {"linux", "win32"}

RECURSIVE replaceAll(_, _, _)
\* String.prototype.replace(/c/g, by), for a pattern of one character.
replaceAll(value, c, by) ==
    IF value = <<>>
    THEN <<>>
    ELSE (IF Head(value) = c THEN by ELSE <<Head(value)>>) \o replaceAll(Tail(value), c, by)

\* quoteForCommandArgument wrapping the value without escaping its quotes.
quoteForCommandArgument_Unescaped(platform, value) ==
    IF platform = "win32"
    THEN <<"\"">> \o value \o <<"\"">>
    ELSE <<"'">> \o value \o <<"'">>

quoteForCommandArgument(platform, value) ==
    IF platform = "win32"
    THEN <<"\"">> \o replaceAll(value, "\"", <<"\"", "\"">>) \o <<"\"">>
    ELSE <<"'">> \o replaceAll(value, "'", <<"'", "\\", "'", "'">>) \o <<"'">>

\* The text the PowerShell descriptor puts between interpreter and path.
PowerShellFlags == <<" -NoProfile -ExecutionPolicy Bypass -File ">>

\* descriptor.buildRunCommand(interpreter, scriptPath), on a platform.
buildRunCommand(descriptor, platform, interpreter, scriptPath) ==
    IF descriptor.runCommand = "powershell -File"
    THEN interpreter \o PowerShellFlags \o quoteForCommandArgument(platform, scriptPath)
    ELSE interpreter \o <<" ">> \o quoteForCommandArgument(platform, scriptPath)

\* What a shell makes of a text it cannot read to its end.
ShellError == <<(<<"syntax error">>)>>

RECURSIVE ShWords(_, _, _, _)
\* The words an sh reads from a text (the ShellExecution of the task runs the
\* command line in the shell of the platform): inside single quotes every
\* character stands for itself up to the next single quote; outside, a
\* backslash makes the next character stand for itself, a blank ends a word,
\* and quoted and unquoted pieces that touch are one word.  `word` is the
\* word being read, if one is; `words` are the words read before it.
ShWords(text, quoted, word, words) ==
    IF text = <<>>
    THEN IF quoted THEN ShellError ELSE words \o word
    ELSE LET c == Head(text)
             rest == Tail(text)
             sofar == IF word = Undefined THEN <<>> ELSE word[1]
         IN  IF quoted
             THEN IF c = "'"
                  THEN ShWords(rest, FALSE, Some(sofar), words)
                  ELSE ShWords(rest, TRUE, Some(sofar \o <<c>>), words)
             ELSE IF c = "'"
             THEN ShWords(rest, TRUE, Some(sofar), words)
             ELSE IF c = "\\"
             THEN IF rest = <<>>
                  THEN ShellError
                  ELSE ShWords(Tail(rest), FALSE, Some(sofar \o <<Head(rest)>>), words)
             ELSE IF c \in WhiteSpace
             THEN ShWords(rest, FALSE, Undefined, words \o word)
             ELSE IF c \in {"\"", "$"}
             THEN ShellError
             ELSE ShWords(rest, FALSE, Some(sofar \o <<c>>), words)

\* The characters a PowerShell variable name is made of, in the model.
NameChars == {"a"}

RECURSIVE SkipName(_)
\* A text without the variable name it starts with.
SkipName(text) ==
    IF text # <<>> /\ Head(text) \in NameChars THEN SkipName(Tail(text)) ELSE text

RECURSIVE PowerShellWords(_, _, _, _)
\* The arguments PowerShell, the shell of tasks on Windows, reads from a text:
\* inside double quotes two double quotes are one and a $ followed by a
\* variable name is replaced by the value of that variable, which is nothing
\* for a variable that is not set; outside, a blank ends an argument.
PowerShellWords(text, quoted, word, words) ==
    IF text = <<>>
    THEN IF quoted THEN ShellError ELSE words \o word
    ELSE LET c == Head(text)
             rest == Tail(text)
             sofar == IF word = Undefined THEN <<>> ELSE word[1]
         IN  IF quoted
             THEN IF c = "\""
                  THEN IF rest # <<>> /\ Head(rest) = "\""
                       THEN PowerShellWords(Tail(rest), TRUE, Some(sofar \o <<"\"">>), words)
                       ELSE PowerShellWords(rest, FALSE, Some(sofar), words)
                  ELSE IF c = "$" /\ rest # <<>> /\ Head(rest) \in NameChars
                  THEN PowerShellWords(SkipName(rest), TRUE, Some(sofar), words)
                  ELSE PowerShellWords(rest, TRUE, Some(sofar \o <<c>>), words)
             ELSE IF c = "\""
             THEN PowerShellWords(rest, TRUE, Some(sofar), words)
             ELSE IF c \in WhiteSpace
             THEN PowerShellWords(rest, FALSE, Undefined, words \o word)
             ELSE IF c \in {"'", "$"}
             THEN ShellError
             ELSE PowerShellWords(rest, FALSE, Some(sofar \o <<c>>), words)

\* The arguments the shell of the platform reads from a text.
ShellWords(platform, text) ==
    IF platform = "win32"
    THEN PowerShellWords(text, FALSE, Undefined, <<>>)
    ELSE ShWords(text, FALSE, Undefined, <<>>)

\* The characters of the paths of the model: a letter, the blank, both
\* quotes, the $ and the backslash.
PathChars == {"a", " ", "'", "\"", "$", "\\"}

RECURSIVE PathsOfLength(_)
PathsOfLength(n) ==
    IF n = 0 THEN {<<>>} ELSE {<<c>> \o p : c \in PathChars, p \in PathsOfLength(n - 1)}

\* The script paths: every text of one to MaxPathLen characters.
ScriptPaths == UNION {PathsOfLength(n) : n \in 1..MaxPathLen}

\* The handler builds the command line of a task (one call in a behaviour).
BuildRunCommand(descriptor, platform, interpreter, scriptPath) ==
    /\ built = Undefined
    /\ built' = Some([descriptor |-> descriptor,
                      platform |-> platform,
                      interpreter |-> interpreter,
                      scriptPath |-> scriptPath,
                      commandLine |-> buildRunCommand(descriptor, platform, interpreter, scriptPath)])
    /\ UNCHANGED <<runVars, regVars, settingVars, resolution, validated, normalized, viewVars>>

(***************************************************************************)
(* Script names                                                            *)
(***************************************************************************)

WINDOWS_RESERVED_BASENAMES ==
    {<<"c", "o", "n">>, <<"p", "r", "n">>, <<"a", "u", "x">>, <<"n", "u", "l">>,
     <<"c", "o", "m", "1">>, <<"c", "o", "m", "2">>, <<"c", "o", "m", "3">>,
     <<"c", "o", "m", "4">>, <<"c", "o", "m", "5">>, <<"c", "o", "m", "6">>,
     <<"c", "o", "m", "7">>, <<"c", "o", "m", "8">>, <<"c", "o", "m", "9">>,
     <<"l", "p", "t", "1">>, <<"l", "p", "t", "2">>, <<"l", "p", "t", "3">>,
     <<"l", "p", "t", "4">>, <<"l", "p", "t", "5">>, <<"l", "p", "t", "6">>,
     <<"l", "p", "t", "7">>, <<"l", "p", "t", "8">>, <<"l", "p", "t", "9">>}

\* path.parse(p).name: the base name without its extension.
parseName(p) == SubSeq(basename(p), 1, Len(basename(p)) - Len(extname(p)))

\* Of the characters U+0000 to U+001F the model has the tab.
ControlChars == {"\t"}

\* The characters of /[<>:"|?*\x00-\x1F]/.
InvalidFilenameChars == {"<", ">", ":", "\"", "|", "?", "*"} \cup ControlChars

\* regex.test(s) for a regular expression that is one character class.
ContainsAny(s, chars) == \E i \in 1..Len(s) : s[i] \in chars

\* validateScriptNameInput comparing the base name with the reserved names as
\* it is written.
validateScriptNameInput_ReservedAsWritten(value, extension) ==
    LET trimmedValue == trim(value)
        expectedExtension == normalizeExtension(extension)
        fileNameBase == parseName(trimmedValue)
        providedExtension == normalizeExtension(extname(trimmedValue))
    IN  IF trimmedValue = <<>>
        THEN Some(<<"Script name is required.">>)
        ELSE IF trimmedValue = <<".">> \/ trimmedValue = <<".", ".">>
        THEN Some(<<"Enter a valid script name.">>)
        ELSE IF ContainsAny(trimmedValue, {"\\", "/"})
        THEN Some(<<"Use only a file name, not a path.">>)
        ELSE IF ContainsAny(trimmedValue, InvalidFilenameChars)
        THEN Some(<<"Name contains invalid filename characters.">>)
        ELSE IF trimmedValue[Len(trimmedValue)] \in {".", " "}
        THEN Some(<<"Name cannot end with a period or space.">>)
        ELSE IF toLowerCase(trimmedValue) = expectedExtension
        THEN Some(<<"Enter a file name before ">> \o expectedExtension \o <<".">>)
        ELSE IF fileNameBase \in WINDOWS_RESERVED_BASENAMES
        THEN Some(<<"Name is reserved on Windows.">>)
        ELSE IF providedExtension # <<>> /\ providedExtension # expectedExtension
        THEN Some(<<"Use ">> \o expectedExtension \o <<" or leave the extension blank.">>)
        ELSE Undefined

\* validateScriptNameInput: the message, or undefined for a name that is
\* accepted.
validateScriptNameInput(value, extension) ==
    LET trimmedValue == trim(value)
        expectedExtension == normalizeExtension(extension)
        fileNameBase == toLowerCase(parseName(trimmedValue))
        providedExtension == normalizeExtension(extname(trimmedValue))
    IN  IF trimmedValue = <<>>
        THEN Some(<<"Script name is required.">>)
        ELSE IF trimmedValue = <<".">> \/ trimmedValue = <<".", ".">>
        THEN Some(<<"Enter a valid script name.">>)
        ELSE IF ContainsAny(trimmedValue, {"\\", "/"})
        THEN Some(<<"Use only a file name, not a path.">>)
        ELSE IF ContainsAny(trimmedValue, InvalidFilenameChars)
        THEN Some(<<"Name contains invalid filename characters.">>)
        ELSE IF trimmedValue[Len(trimmedValue)] \in {".", " "}
        THEN Some(<<"Name cannot end with a period or space.">>)
        ELSE IF toLowerCase(trimmedValue) = expectedExtension
        THEN Some(<<"Enter a file name before ">> \o expectedExtension \o <<".">>)
        ELSE IF fileNameBase \in WINDOWS_RESERVED_BASENAMES
        THEN Some(<<"Name is reserved on Windows.">>)
        ELSE IF providedExtension # <<>> /\ providedExtension # expectedExtension
        THEN Some(<<"Use ">> \o expectedExtension \o <<" or leave the extension blank.">>)
        ELSE Undefined

\* What is typed before the extension, if any: nothing, dots, plain names,
\* reserved and nearly reserved names, paths, names with a reserved or a
\* control character, names ending in a period or a blank.
NameStems ==
    {<<>>, <<".">>, <<".", ".">>, <<"a">>, <<"m", " ", "y">>, <<"c", "o", "n">>,
     <<"C", "O", "N">>, <<"N", "u", "l">>, <<"a", "u", "x">>, <<"c", "o", "m", "1">>,
     <<"L", "P", "T", "9">>, <<"c", "o", "m", "0">>, <<"c", "o", "n", "x">>,
     <<"a", "/", "b">>, <<"a", "\\", "b">>, <<"a", "<", "b">>, <<">">>, <<"a", ":">>,
     <<"a", "\"">>, <<"a", "|", "b">>, <<"a", "?">>, <<"*">>, <<"a", "\t", "b">>,
     <<"a", ".">>, <<"a", " ", ".">>}

\* What is typed after it: nothing, an extension in either case, another
\* extension, two extensions, a period.
NameSuffixes ==
    {<<>>, <<".", "p", "s", "1">>, <<".", "P", "S", "1">>, <<".", "s", "h">>,
     <<".", "t", "x", "t", ".", "p", "s", "1">>, <<".">>}

\* The names typed into the input box: a stem and a suffix, with up to MaxPad
\* blanks on both sides.
NameInputs ==
    {Blanks(pad) \o stem \o suffix \o Blanks(pad) :
         pad \in 0..MaxPad, stem \in NameStems, suffix \in NameSuffixes}

\* The extension the name is validated for, as a descriptor has it and as a
\* caller of the exported function may write it.
ExpectedExtensions == {<<".", "p", "s", "1">>, <<".", "s", "h">>, <<"P", "s", "1">>}

\* The input box validates what was typed (one call in a behaviour).
ValidateScriptNameInput(value, extension) ==
    /\ validated = Undefined
    /\ validated' = Some([value |-> value,
                          extension |-> extension,
                          result |-> validateScriptNameInput(value, extension)])
    /\ UNCHANGED <<runVars, regVars, settingVars, resolution, built, normalized, viewVars>>

\* normalizeScriptFileName comparing the extension as it is typed.
normalizeScriptFileName_CaseSensitive(rawName, extension) ==
    LET trimmedName == trim(rawName)
        normalizedExtension == normalizeExtension(extension)
        existingExtension == extname(trimmedName)
    IN  IF existingExtension # <<>> /\ existingExtension = normalizedExtension
        THEN trimmedName
        ELSE trimmedName \o normalizedExtension

normalizeScriptFileName(rawName, extension) ==
    LET trimmedName == trim(rawName)
        normalizedExtension == normalizeExtension(extension)
        existingExtension == normalizeExtension(extname(trimmedName))
    IN  IF existingExtension # <<>> /\ existingExtension = normalizedExtension
        THEN trimmedName
        ELSE trimmedName \o normalizedExtension

\* The names given to normalizeScriptFileName: those typed into the input
\* box, accepted or not, and a name that ends in a separator.
RawNames == NameInputs \cup {<<"a", "/">>}

\* A caller normalizes a name for an extension (one call in a behaviour).
NormalizeScriptFileName(rawName, extension) ==
    /\ normalized = Undefined
    /\ normalized' = Some([rawName |-> rawName,
                           extension |-> extension,
                           result |-> normalizeScriptFileName(rawName, extension)])
    /\ UNCHANGED <<runVars, regVars, settingVars, resolution, built, validated, viewVars>>

(***************************************************************************)
(* Scripts view                                                            *)
(***************************************************************************)

\* vscode.FileType; the type of a symbolic link is SymbolicLink combined with
\* the type of its target.
FileType == [Unknown |-> 0, File |-> 1, Directory |-> 2, SymbolicLink |-> 64]

\* A vscode.Uri, as far as the extension looks at it.
Uri(scheme, fsPath) == [scheme |-> scheme, fsPath |-> fsPath]

\* vscode.Uri.joinPath(base, segment).
joinPath(base, segment) == Uri(base.scheme, base.fsPath \o <<"/">> \o segment)

\* os.homedir().
homedir == <<"/", "h">>

\* resolveDirectoryPath: '~' and a leading '~/' stand for the home directory,
\* an absolute path is kept and any other is resolved against the home
\* directory.
resolveDirectoryPath(inputPath) ==
    LET expandedPath ==
            IF inputPath = <<"~">>
            THEN homedir
            ELSE IF Len(inputPath) >= 2 /\ SubSeq(inputPath, 1, 2) \in {<<"~", "/">>, <<"~", "\\">>}
                 THEN homedir \o <<"/">> \o SubSeq(inputPath, 3, Len(inputPath))
                 ELSE inputPath
    IN  IF expandedPath # <<>> /\ Head(expandedPath) = "/"
        THEN expandedPath
        ELSE homedir \o <<"/">> \o expandedPath

\* resolveScriptsDirectory, `read` being what getQuickItSettingValue
\* ('scriptDirectory') returned and globalStorageUri the storage the host gave
\* the extension.
resolveScriptsDirectory(globalStorageUri, read) ==
    IF read.value # Undefined
    THEN Uri("file", resolveDirectoryPath(read.value[1]))
    ELSE joinPath(globalStorageUri, <<"scripts">>)

\* The primary collation weights of the characters of the model, in the order
\* of the root collation: punctuation, digits, letters; a letter has the
\* weight of its lower-case form.
CollationOrder ==
    <<".", "1", "a", "b", "c", "g", "h", "j", "l", "m", "n", "o", "p", "r", "s", "t", "u", "x",
      "y", "z">>

PrimaryWeight(c) ==
    LET at == {i \in 1..Len(CollationOrder) : CollationOrder[i] = ToLowerChar(c)}
    IN  IF at = {} THEN 0 ELSE CHOOSE i \in at : TRUE

\* The order of the UTF-16 code units of the characters of the model: an
\* upper-case letter is before every lower-case one.
CodeUnitWeight(c) ==
    IF c \in DOMAIN LowerOf THEN PrimaryWeight(c) ELSE PrimaryWeight(c) + Len(CollationOrder)

RECURSIVE localeCompare_CodeUnits(_, _)
\* A comparison of the code units, as Array.prototype.sort makes by default.
localeCompare_CodeUnits(left, right) ==
    IF left = <<>> /\ right = <<>> THEN 0
    ELSE IF left = <<>> THEN -1
    ELSE IF right = <<>> THEN 1
    ELSE IF CodeUnitWeight(Head(left)) < CodeUnitWeight(Head(right)) THEN -1
    ELSE IF CodeUnitWeight(Head(left)) > CodeUnitWeight(Head(right)) THEN 1
    ELSE localeCompare_CodeUnits(Tail(left), Tail(right))

RECURSIVE localeCompare(_, _)
\* left.localeCompare(right, undefined, { sensitivity: 'base' }): negative,
\* zero or positive; only the primary weights are compared.
localeCompare(left, right) ==
    IF left = <<>> /\ right = <<>> THEN 0
    ELSE IF left = <<>> THEN -1
    ELSE IF right = <<>> THEN 1
    ELSE IF PrimaryWeight(Head(left)) < PrimaryWeight(Head(right)) THEN -1
    ELSE IF PrimaryWeight(Head(left)) > PrimaryWeight(Head(right)) THEN 1
    ELSE localeCompare(Tail(left), Tail(right))

RECURSIVE sortScriptItems(_)
\* scriptItems.sort(...) by the base names: Array.prototype.sort is stable, so
\* an item goes behind every item that does not compare greater than it.
sortScriptItems(scriptItems) ==
    IF scriptItems = <<>>
    THEN <<>>
    ELSE LET sorted == sortScriptItems(SubSeq(scriptItems, 1, Len(scriptItems) - 1))
             item == scriptItems[Len(scriptItems)]
             before ==
                 Cardinality({i \in 1..Len(sorted) :
                                 localeCompare(basename(sorted[i].fsPath), basename(item.fsPath)) <= 0})
         IN  SubSeq(sorted, 1, before) \o <<item>> \o SubSeq(sorted, before + 1, Len(sorted))

RECURSIVE collectScriptItems(_, _, _)
\* The loop of getChildren over the entries readDirectory returned.
collectScriptItems(registry, scriptsDirectory, entries) ==
    IF entries = <<>>
    THEN <<>>
    ELSE LET entry == Head(entries)
             uri == joinPath(scriptsDirectory, entry.name)
             descriptor == resolveDescriptorForUri(registry, uri.fsPath)
             rest == collectScriptItems(registry, scriptsDirectory, Tail(entries))
         IN  IF entry.type # FileType.File
             THEN rest
             ELSE IF descriptor = Undefined
                  THEN rest
                  ELSE <<ScriptItem(uri.fsPath, descriptor[1])>> \o rest

\* What a call of getChildren answers and leaves: the items returned, the
\* flag hasShownReadError and the error messages shown.
TreeResult(items, hasShownReadError, messages) ==
    [items |-> items, hasShownReadError |-> hasShownReadError, messages |-> messages]

\* getChildren(element) for an element: a script has no children.
getChildrenOfElement(hasShownReadError) == TreeResult(<<>>, hasShownReadError, <<>>)

\* getChildren() that leaves the flag hasShownReadError as it finds it.
getChildrenListed_KeepsFlag(registry, hasShownReadError, scriptsDirectory, entries) ==
    TreeResult(sortScriptItems(collectScriptItems(registry, scriptsDirectory, entries)),
               hasShownReadError, <<>>)

\* getChildren() whose readDirectory answered `entries`.
getChildrenListed(registry, hasShownReadError, scriptsDirectory, entries) ==
    TreeResult(sortScriptItems(collectScriptItems(registry, scriptsDirectory, entries)), FALSE, <<>>)

\* getChildren() whose createDirectory or readDirectory failed with `error`.
getChildrenFailed(hasShownReadError, error) ==
    TreeResult(<<>>, TRUE,
               IF hasShownReadError
               THEN <<>>
               ELSE <<Message("error", "QuickIt failed to load scripts", Some(error))>>)

\* The tree provider after its construction: the flag, the scripts directory
\* of each call of getChildren() that is awaiting the file system, the failed
\* calls and the error messages since the last listing (or since the start),
\* and the last call that returned.
InitialTree ==
    [hasShownReadError |-> FALSE,
     pending |-> <<>>,
     failures |-> 0,
     messages |-> 0,
     last |-> Undefined]

\* A call of getChildren that returned: whether it was given an element, the
\* directory it listed, what readDirectory answered or the error thrown, the
\* items returned and the error messages shown.
TreeCall(element, scriptsDirectory, entries, error, result) ==
    [element |-> element,
     scriptsDirectory |-> scriptsDirectory,
     entries |-> entries,
     error |-> error,
     items |-> result.items,
     messages |-> result.messages]

\* An entry of readDirectory.
Entry(name, type) == [name |-> name, type |-> type]

\* The entries a scripts directory can have: scripts of built-in extensions,
\* a file of an extension nobody handles, a script of an extension another
\* extension may register, a directory and a symbolic link to a file that
\* have the name of a script.
EntryPool ==
    {Entry(<<"b", ".", "p", "s", "1">>, FileType.File),
     Entry(<<"A", ".", "s", "h">>, FileType.File),
     Entry(<<"c", ".", "t", "x", "t">>, FileType.File),
     Entry(<<"a", ".", "R", "B">>, FileType.File),
     Entry(<<"a", ".", "p", "y">>, FileType.Directory),
     Entry(<<"B", ".", "j", "s">>, FileType.SymbolicLink + FileType.File)}

RECURSIVE ListingsOfLength(_)
\* What readDirectory can answer for n entries: the names differ, the order
\* is the one of the file system.
ListingsOfLength(n) ==
    IF n = 0
    THEN {<<>>}
    ELSE {Append(p[1], p[2]) :
              p \in {q \in ListingsOfLength(n - 1) \X EntryPool :
                         \A i \in 1..Len(q[1]) : q[1][i].name # q[2].name}}

Listings == UNION {ListingsOfLength(n) : n \in 0..MaxEntries}

\* The errors of createDirectory and readDirectory.
ReadErrors == {<<"EACCES: permission denied">>, <<"ENOTDIR: not a directory">>}

\* The storage the host gives the extension: on the disk, or not.
GlobalStorageUris == {Uri("file", <<"/", "g">>), Uri("vscode-userdata", <<"/", "g">>)}

\* The view asks for the children of a script item.
GetChildrenOfElement(element) ==
    /\ tree' = [tree EXCEPT
                   !.last = Some(TreeCall(Some(element), Undefined, Undefined, Undefined,
                                          getChildrenOfElement(tree.hasShownReadError)))]
    /\ UNCHANGED <<runVars, regVars, settingVars, resolution, pureVars, watching, files, adding>>

\* The view asks for the scripts: getChildren() up to its first await on the
\* file system, the key 'scriptDirectory' being `setting` in the
\* configuration.
GetChildrenCall(setting, globalStorageUri) ==
    LET read == getQuickItSettingValue(hasShownWorkspaceConfigurationWarning,
                                       ConfigurationInspect(setting), ConfigurationGet(setting))
    IN  /\ settingReads.reads < MaxReads
        /\ hasShownWorkspaceConfigurationWarning' = read.hasShown
        /\ settingReads' = RecordRead(settingReads, "scriptDirectory", setting, read)
        /\ tree' = [tree EXCEPT
                       !.pending = Append(@, resolveScriptsDirectory(globalStorageUri, read))]
        /\ UNCHANGED <<runVars, regVars, resolution, pureVars, watching, files, adding>>

\* One sequence without its k-th element.
RemoveAt(s, k) == SubSeq(s, 1, k - 1) \o SubSeq(s, k + 1, Len(s))

\* readDirectory answers the k-th call in flight.
GetChildrenListed(k, entries) ==
    LET result == getChildrenListed(customInterpreters, tree.hasShownReadError,
                                    tree.pending[k], entries)
    IN  /\ k \in 1..Len(tree.pending)
        /\ tree' = [hasShownReadError |-> result.hasShownReadError,
                    pending |-> RemoveAt(tree.pending, k),
                    failures |-> 0,
                    messages |-> 0,
                    last |-> Some(TreeCall(Undefined, Some(tree.pending[k]), Some(entries),
                                           Undefined, result))]
        /\ UNCHANGED <<runVars, regVars, settingVars, resolution, pureVars, watching, files, adding>>

\* createDirectory or readDirectory fails in the k-th call in flight.
GetChildrenFailed(k, error) ==
    LET result == getChildrenFailed(tree.hasShownReadError, error)
    IN  /\ k \in 1..Len(tree.pending)
        /\ tree' = [hasShownReadError |-> result.hasShownReadError,
                    pending |-> RemoveAt(tree.pending, k),
                    failures |-> tree.failures + 1,
                    messages |-> tree.messages + Len(result.messages),
                    last |-> Some(TreeCall(Undefined, Some(tree.pending[k]), Undefined,
                                           Some(error), result))]
        /\ UNCHANGED <<runVars, regVars, settingVars, resolution, pureVars, watching, files, adding>>

(***************************************************************************)
(* Watcher of the scripts directory                                        *)
(***************************************************************************)

\* activate(): scriptsDirectoryWatcher (0 for undefined, else the number of
\* the watcher), every watcher createFileSystemWatcher has made, live or
\* disposed, the scripts directory of each invocation of
\* watchScriptsDirectory that is suspended in its await, in the order of the
\* invocations, and the errors logged.
InitialWatching ==
    [scriptsDirectoryWatcher |-> 0,
     watchers |-> <<>>,
     suspended |-> <<>>,
     logged |-> 0]

\* FileSystemWatcher.dispose().
DisposeWatcher(watchers, w) == [watchers EXCEPT ![w] = "disposed"]

\* watchScriptsDirectory up to its await: the watcher in
\* scriptsDirectoryWatcher, if any, is disposed and forgotten, and the
\* directory is asked for.
watchScriptsDirectory(st, scriptsDirectory) ==
    [st EXCEPT
        !.watchers =
            IF st.scriptsDirectoryWatcher # 0 THEN DisposeWatcher(@, st.scriptsDirectoryWatcher) ELSE @,
        !.scriptsDirectoryWatcher = 0,
        !.suspended = Append(@, scriptsDirectory)]

\* watchScriptsDirectory from its await on, for the invocation that was
\* suspended first: nothing for a directory that is not on the disk; else a
\* watcher is made and kept in scriptsDirectoryWatcher, or
\* createFileSystemWatcher throws and the error is logged.
watchScriptsDirectoryResumed(st, created) ==
    LET scriptsDirectory == Head(st.suspended)
        resumed == [st EXCEPT !.suspended = Tail(@)]
    IN  IF scriptsDirectory.scheme # "file"
        THEN resumed
        ELSE IF ~created
        THEN [resumed EXCEPT !.logged = @ + 1]
        ELSE [resumed EXCEPT
                 !.watchers = Append(@, "live"),
                 !.scriptsDirectoryWatcher = Len(st.watchers) + 1]

\* activate() (the first invocation) or the listener of
\* onDidChangeConfiguration, for a change that affects quickIt, calls
\* watchScriptsDirectory; the key 'scriptDirectory' is `setting` in the
\* configuration.  The refresh the listener fires first changes nothing here.
WatchScriptsDirectory(setting, globalStorageUri) ==
    LET read == getQuickItSettingValue(hasShownWorkspaceConfigurationWarning,
                                       ConfigurationInspect(setting), ConfigurationGet(setting))
    IN  /\ settingReads.reads < MaxReads
        /\ hasShownWorkspaceConfigurationWarning' = read.hasShown
        /\ settingReads' = RecordRead(settingReads, "scriptDirectory", setting, read)
        /\ watching' = watchScriptsDirectory(watching, resolveScriptsDirectory(globalStorageUri, read))
        /\ UNCHANGED <<runVars, regVars, resolution, pureVars, tree, files, adding>>

\* The invocation that was suspended first is resumed.
WatchScriptsDirectoryResumed(created) ==
    /\ watching.suspended # <<>>
    /\ watching' = watchScriptsDirectoryResumed(watching, created)
    /\ UNCHANGED <<runVars, regVars, settingVars, resolution, pureVars, tree, files, adding>>


(***************************************************************************)
(* quick-it.addScript                                                      *)
(***************************************************************************)

Adds == 1..MaxAdds

\* getInitialTemplateForExtension.
getInitialTemplateForExtension(extension) ==
    CASE extension = <<".", "p", "s", "1">> -> <<"# QuickIt PowerShell script\n">>
      [] extension = <<".", "s", "h">> -> <<"#!/usr/bin/env bash\n">>
      [] extension = <<".", "z", "s", "h">> -> <<"#!/usr/bin/env zsh\n">>
      [] extension = <<".", "p", "y">> -> <<"#!/usr/bin/env python3\n">>
      [] extension = <<".", "j", "s">> -> <<"// QuickIt JavaScript script\n">>
      [] extension = <<".", "t", "s">> -> <<"// QuickIt TypeScript script\n">>
      [] OTHER -> <<>>

\* uriExists, `stat` being what vscode.workspace.fs.stat did: any error of it
\* means that the file does not exist.
uriExists(directory, fsPath, stat) == IF stat = "error" THEN FALSE ELSE fsPath \in DOMAIN directory

\* An invocation of the handler of quick-it.addScript: where it is suspended,
\* what was picked and typed, the file it is about, what uriExists and the
\* confirmation answered, whether it wrote the file and the content the file
\* had when it did, the refreshes it fired and the messages it showed.
InitialAdd ==
    [pc |-> "idle",
     descriptor |-> Undefined,
     scriptsDirectory |-> Undefined,
     scriptFileName |-> Undefined,
     scriptUri |-> Undefined,
     exists |-> Undefined,
     overwriteSelection |-> Undefined,
     wrote |-> FALSE,
     replaced |-> Undefined,
     refreshes |-> 0,
     notifications |-> <<>>]

\* The catch clause of the handler.
addScriptFailed(st, error) ==
    [st EXCEPT !.pc = "done",
               !.notifications =
                   Append(@, Message("error", "QuickIt failed to create the script", Some(error)))]

\* The handler from the answer of showQuickPick on.
addScriptPicked(st, selectedScriptType) ==
    IF selectedScriptType = Undefined
    THEN [st EXCEPT !.pc = "done"]
    ELSE [st EXCEPT !.pc = "naming", !.descriptor = selectedScriptType]

\* The handler from the answer of showInputBox on, up to the await of
\* createDirectory.
addScriptNamed(st, scriptNameInput, scriptsDirectory) ==
    IF scriptNameInput = Undefined
    THEN [st EXCEPT !.pc = "done"]
    ELSE [st EXCEPT !.pc = "creating",
                    !.scriptsDirectory = Some(scriptsDirectory),
                    !.scriptFileName =
                        Some(normalizeScriptFileName(scriptNameInput[1], st.descriptor[1].extension))]

\* The handler from the answer of createDirectory on, up to the await of
\* uriExists.
addScriptDirectoryCreated(st, error) ==
    IF error # Undefined
    THEN addScriptFailed(st, error[1])
    ELSE [st EXCEPT !.pc = "checking",
                    !.scriptUri = Some(joinPath(st.scriptsDirectory[1], st.scriptFileName[1]))]

\* The handler from the answer of uriExists on: the confirmation is shown for
\* a file that exists, else writeFile is called.
addScriptChecked(st, exists) ==
    [st EXCEPT !.pc = IF exists THEN "confirming" ELSE "writing",
               !.exists = Some(exists)]

\* The handler from the answer of the confirmation on.
addScriptConfirmed(st, overwriteSelection) ==
    IF overwriteSelection # Some("Overwrite")
    THEN [st EXCEPT !.pc = "done", !.overwriteSelection = overwriteSelection]
    ELSE [st EXCEPT !.pc = "writing", !.overwriteSelection = overwriteSelection]

\* The handler from the answer of writeFile on; `before` is the content the
\* file had when it was written, if it was there.
addScriptWritten(st, before, error) ==
    IF error # Undefined
    THEN addScriptFailed(st, error[1])
    ELSE [st EXCEPT !.pc = "done",
                    !.wrote = TRUE,
                    !.replaced = before,
                    !.refreshes = @ + 1,
                    !.notifications = Append(@, Message("info", "Created", st.scriptFileName))]

\* The content of a file of the directory, if it is there.
ContentOf(directory, fsPath) ==
    IF fsPath \in DOMAIN directory THEN Some(directory[fsPath]) ELSE Undefined

\* The command is invoked: showQuickPick is shown.
AddScriptCommand(a) ==
    /\ adding[a].pc = "idle"
    /\ adding' = [adding EXCEPT ![a].pc = "picking"]
    /\ UNCHANGED <<runVars, regVars, settingVars, resolution, pureVars, tree, watching, files>>

\* showQuickPick answers: a script type, or undefined when it was dismissed.
ScriptTypePicked(a, selectedScriptType) ==
    /\ adding[a].pc = "picking"
    /\ adding' = [adding EXCEPT ![a] = addScriptPicked(@, selectedScriptType)]
    /\ UNCHANGED <<runVars, regVars, settingVars, resolution, pureVars, tree, watching, files>>

\* showInputBox answers undefined: it was dismissed.
ScriptNameDismissed(a) ==
    /\ adding[a].pc = "naming"
    /\ adding' = [adding EXCEPT ![a] = addScriptNamed(@, Undefined, Undefined)]
    /\ UNCHANGED <<runVars, regVars, settingVars, resolution, pureVars, tree, watching, files>>

\* showInputBox answers a name, which validateInput has accepted; the handler
\* asks for the scripts directory, the key 'scriptDirectory' being `setting`
\* in the configuration.
ScriptNameEntered(a, scriptNameInput, setting, globalStorageUri) ==
    LET read == getQuickItSettingValue(hasShownWorkspaceConfigurationWarning,
                                       ConfigurationInspect(setting), ConfigurationGet(setting))
    IN  /\ adding[a].pc = "naming"
        /\ validateScriptNameInput(scriptNameInput, adding[a].descriptor[1].extension) = Undefined
        /\ settingReads.reads < MaxReads
        /\ hasShownWorkspaceConfigurationWarning' = read.hasShown
        /\ settingReads' = RecordRead(settingReads, "scriptDirectory", setting, read)
        /\ adding' = [adding EXCEPT ![a] =
                         addScriptNamed(@, Some(scriptNameInput),
                                        resolveScriptsDirectory(globalStorageUri, read))]
        /\ UNCHANGED <<runVars, regVars, resolution, pureVars, tree, watching, files>>

\* createDirectory answers.
ScriptsDirectoryCreated(a, error) ==
    /\ adding[a].pc = "creating"
    /\ adding' = [adding EXCEPT ![a] = addScriptDirectoryCreated(@, error)]
    /\ UNCHANGED <<runVars, regVars, settingVars, resolution, pureVars, tree, watching, files>>

\* stat is made and uriExists answers.
ScriptChecked(a, stat) ==
    /\ adding[a].pc = "checking"
    /\ adding' = [adding EXCEPT ![a] =
                     addScriptChecked(@, uriExists(files, adding[a].scriptUri[1].fsPath, stat))]
    /\ UNCHANGED <<runVars, regVars, settingVars, resolution, pureVars, tree, watching, files>>

\* The confirmation answers: 'Overwrite', or undefined when it was dismissed.
OverwriteAnswered(a, overwriteSelection) ==
    /\ adding[a].pc = "confirming"
    /\ adding' = [adding EXCEPT ![a] = addScriptConfirmed(@, overwriteSelection)]
    /\ UNCHANGED <<runVars, regVars, settingVars, resolution, pureVars, tree, watching, files>>

\* writeFile is made, or fails, and answers; the handler goes on to its end.
ScriptWritten(a, error) ==
    LET fsPath == adding[a].scriptUri[1].fsPath
    IN  /\ adding[a].pc = "writing"
        /\ files' = IF error # Undefined
                    THEN files
                    ELSE MapSet(files, fsPath,
                                getInitialTemplateForExtension(adding[a].descriptor[1].extension))
        /\ adding' = [adding EXCEPT ![a] = addScriptWritten(@, ContentOf(files, fsPath), error)]
        /\ UNCHANGED <<runVars, regVars, settingVars, resolution, pureVars, tree, watching>>

\* What the user keeps in a script.
UserContent == <<"echo mine\n">>

\* Another program, or the user in an editor, writes a script into the
\* directory.
ExternalWrite(fsPath) ==
    /\ ContentOf(files, fsPath) # Some(UserContent)
    /\ files' = MapSet(files, fsPath, UserContent)
    /\ UNCHANGED <<runVars, regVars, settingVars, resolution, pureVars, tree, watching, adding>>

\* The state in activate() before the calls that end it (lines 431 to 433):
\* no command invoked, no signal fired, no interpreter registered, no setting
\* read, no watcher made, the view not yet asked, no script in the directory.
Init ==
    /\ runs = [r \in Runs |-> InitialRun]
    /\ lateSignal = "none"
    /\ customInterpreters = <<>>
    /\ handles = <<>>
    /\ lastOp = Op("none", FALSE, 0, FALSE, 0)
    /\ hasShownWorkspaceConfigurationWarning = FALSE
    /\ settingReads = NoReads
    /\ resolution = InitialResolution
    /\ built = Undefined
    /\ validated = Undefined
    /\ normalized = Undefined
    /\ tree = InitialTree
    /\ watching = InitialWatching
    /\ files = <<>>
    /\ adding = [a \in Adds |-> InitialAdd]

NextRun ==
    \/ \E r \in Runs, hasItem \in BOOLEAN : RunScriptCommand(r, hasItem)
    \/ \E r \in Runs, found \in BOOLEAN : InterpreterResolved(r, found)
    \/ \E r \in Runs, available \in BOOLEAN : AvailabilityChecked(r, available)
    \/ \E definition \in Definitions, exitCode \in ExitCodes : FireEndTaskProcess(definition, exitCode)
    \/ \E definition \in Definitions : FireEndTask(definition)
    \/ \E r \in Runs : LaunchFulfilled(r)
    \/ \E r \in Runs, error \in LaunchErrors : LaunchRejected(r, error)
    \/ \E r \in Runs : RunScriptResume(r)

SpecRun == Init /\ [][NextRun]_vars

\* The runs under the event loop of the host, which sends the signals of the
\* tasks of the runs when it sends any: a handler that awaits a promise is
\* resumed once the promise is settled; nothing makes the host send a signal.
NextRunFair ==
    \/ \E r \in Runs, hasItem \in BOOLEAN : RunScriptCommand(r, hasItem)
    \/ \E r \in Runs, found \in BOOLEAN : InterpreterResolved(r, found)
    \/ \E r \in Runs, available \in BOOLEAN : AvailabilityChecked(r, available)
    \/ \E r \in Runs, exitCode \in {Undefined, Some(0)} :
          FireEndTaskProcess([defined |-> TRUE, type |-> "quick-it", runId |-> createRunId(r)],
                             exitCode)
    \/ \E r \in Runs :
          FireEndTask([defined |-> TRUE, type |-> "quick-it", runId |-> createRunId(r)])
    \/ \E r \in Runs : LaunchFulfilled(r)
    \/ \E r \in Runs : LaunchRejected(r, "task-rejected")
    \/ \E r \in Runs : RunScriptResume(r)

SpecRunFair == Init /\ [][NextRunFair]_vars /\ \A r \in Runs : WF_vars(RunScriptResume(r))

\* The registry under calls of other extensions.
NextRegistry ==
    \/ \E extension \in ExtensionInputs, command \in CommandInputs, label \in LabelInputs :
          RegisterInterpreter(extension, command, label)
    \/ \E h \in 1..Len(handles) : DisposeHandle(h)

SpecRegistry == Init /\ [][NextRegistry]_vars

\* The registry under calls that spell built-in extensions in every way.
NextBuiltin ==
    \/ \E extension \in BuiltinSpellings,
          command \in {<<"irb">>, <<" ">>},
          label \in {Undefined, Some(<<"R">>)} :
          RegisterInterpreter(extension, command, label)
    \/ \E command \in {<<" ", "ruby", " ">>, <<"irb">>}, label \in {Undefined, Some(<<"R">>)} :
          RegisterInterpreter(<<"g", "o">>, command, label)
    \/ \E h \in 1..Len(handles) : DisposeHandle(h)

SpecBuiltin == Init /\ [][NextBuiltin]_vars

\* The settings under reads of any key, the configuration being whatever the
\* user and the workspace made it at the time of each read.
NextSettings ==
    \E settingPath \in SettingKeys, setting \in Settings : ReadSetting(settingPath, setting)

SpecSettings == Init /\ [][NextSettings]_vars

\* The start of a run: the handler invoked for an item (or for none), the
\* host answering each availability probe either way.
NextResolve ==
    \/ \E item \in {i \in ScriptItems : i.descriptor.interpreterSetting # Undefined},
          setting \in RunSettings :
          RunScriptStart(Some(item), setting)
    \/ \E item \in {i \in ScriptItems : i.descriptor.interpreterSetting = Undefined} :
          RunScriptStart(Some(item), Inspection(Undefined, Undefined, Undefined, Undefined))
    \/ RunScriptStart(Undefined, Inspection(Undefined, Undefined, Undefined, Undefined))
    \/ \E found \in BOOLEAN : CandidateProbed(found)
    \/ \E found \in BOOLEAN : CommandChecked(found)

SpecResolve == Init /\ [][NextResolve]_vars

\* The command line built for a script of any path, for the PowerShell and
\* the Bash descriptor, on either platform.
NextCommandLine ==
    \E descriptor \in {BUILTIN_BY_EXTENSION(<<".", "p", "s", "1">>),
                       BUILTIN_BY_EXTENSION(<<".", "s", "h">>)},
       platform \in Platforms,
       scriptPath \in ScriptPaths :
       BuildRunCommand(descriptor, platform, descriptor.defaultInterpreters[1], scriptPath)

SpecCommandLine == Init /\ [][NextCommandLine]_vars

\* The validation of any name for any of the extensions.
NextValidate ==
    \E value \in NameInputs, extension \in ExpectedExtensions :
       ValidateScriptNameInput(value, extension)

SpecValidate == Init /\ [][NextValidate]_vars

\* The normalization of any name for any of the extensions.
NextNormalize ==
    \E rawName \in RawNames, extension \in ExpectedExtensions :
       NormalizeScriptFileName(rawName, extension)

SpecNormalize == Init /\ [][NextNormalize]_vars

\* The scripts view listing a directory of any content once, before, between
\* or after the calls of another extension that registers an interpreter and
\* gives it up.
NextListing ==
    \/ /\ settingReads.reads = 0
       /\ GetChildrenCall(Inspection(Some(<<>>), Undefined, Undefined, Undefined),
                          Uri("file", <<"/", "g">>))
    \/ \E element \in ScriptItems : GetChildrenOfElement(element)
    \/ \E k \in 1..Len(tree.pending), entries \in Listings : GetChildrenListed(k, entries)
    \/ RegisterInterpreter(<<".", "R", "b", " ">>, <<"irb">>, Undefined)
    \/ \E h \in 1..Len(handles) : DisposeHandle(h)

SpecListing == Init /\ [][NextListing]_vars

\* The scripts view under a file system that fails and recovers, the
\* directory being the configured one or the one in the storage.
NextTree ==
    \/ \E setting \in {Inspection(Some(<<>>), Undefined, Undefined, Undefined),
                        Inspection(Some(<<>>), Some(<<"user">>), Some(<<"workspace">>), Undefined)},
          globalStorageUri \in GlobalStorageUris :
          GetChildrenCall(setting, globalStorageUri)
    \/ \E element \in ScriptItems : GetChildrenOfElement(element)
    \/ \E k \in 1..Len(tree.pending), entries \in ListingsOfLength(0) \cup ListingsOfLength(1) :
          GetChildrenListed(k, entries)
    \/ \E k \in 1..Len(tree.pending), error \in ReadErrors : GetChildrenFailed(k, error)

SpecTree == Init /\ [][NextTree]_vars

\* The watcher under changes of the configuration that come while an earlier
\* invocation is suspended or after it.
NextWatch ==
    \/ \E setting \in {Inspection(Some(<<>>), Undefined, Undefined, Undefined),
                        Inspection(Some(<<>>), Some(<<"user">>), Undefined, Undefined),
                        Inspection(Some(<<>>), Some(<<"~", "/", "user">>), Some(<<"workspace">>),
                                   Undefined)},
          globalStorageUri \in GlobalStorageUris :
          WatchScriptsDirectory(setting, globalStorageUri)
    \/ \E created \in BOOLEAN : WatchScriptsDirectoryResumed(created)

SpecWatch == Init /\ [][NextWatch]_vars

\* The command invoked up to MaxAdds times for a Bash script of one of two
\* names, which normalize to the same file, while the file may be written
\* from outside.
NextAdd ==
    \/ \E a \in Adds : AddScriptCommand(a)
    \/ \E a \in Adds, selectedScriptType \in {Undefined, Some(BUILTIN_BY_EXTENSION(<<".", "s", "h">>))} :
          ScriptTypePicked(a, selectedScriptType)
    \/ \E a \in Adds : ScriptNameDismissed(a)
    \/ \E a \in Adds, scriptNameInput \in {<<"a">>, <<" ", "a", ".", "s", "h">>} :
          ScriptNameEntered(a, scriptNameInput,
                            Inspection(Some(<<>>), Undefined, Undefined, Undefined),
                            Uri("file", <<"/", "g">>))
    \/ \E a \in Adds, error \in {Undefined, Some(<<"EACCES: permission denied">>)} :
          ScriptsDirectoryCreated(a, error)
    \/ \E a \in Adds, stat \in {"answer", "error"} : ScriptChecked(a, stat)
    \/ \E a \in Adds, overwriteSelection \in {Undefined, Some("Overwrite")} :
          OverwriteAnswered(a, overwriteSelection)
    \/ \E a \in Adds, error \in {Undefined, Some(<<"EACCES: permission denied">>)} :
          ScriptWritten(a, error)
    \/ ExternalWrite(<<"/", "g", "/", "scripts", "/", "a", ".", "s", "h">>)

SpecAdd == Init /\ [][NextAdd]_vars

(***************************************************************************)
(* Properties of the run supervisor, checked under SpecRun                 *)
(***************************************************************************)

\* What a step leaves alone in a run that was settled before it.
SettlementKept(r) ==
    /\ runs'[r].settled
    /\ runs'[r].outcome = runs[r].outcome
    /\ runs'[r].settledBy = runs[r].settledBy
    /\ runs'[r].callbackCalls = runs[r].callbackCalls
    /\ runs'[r].endTaskProcessSubscription = runs[r].endTaskProcessSubscription
    /\ runs'[r].endTaskSubscription = runs[r].endTaskSubscription
    /\ runs'[r].processDisposals = runs[r].processDisposals
    /\ runs'[r].taskDisposals = runs[r].taskDisposals

\* C1: whatever signals (process end, task end, launch failure; repeated, in
\* any order) the host sends for a run handle, the callback of settle runs at
\* most once for the run, and a step taken after the run is settled changes
\* neither its outcome nor its subscriptions.
C1_SettledAtMostOnce ==
    [][\A r \in Runs :
          /\ runs'[r].callbackCalls <= 1
          /\ runs[r].settled => SettlementKept(r)]_vars

\* C1 witness: a run settled by a process-end signal, after which a signal with
\* its handle was fired again and its launch failed.
C1_Witness ==
    \E r \in Runs :
        /\ runs[r].settledBy.kind = "process"
        /\ runs[r].launch = "rejected"
        /\ lateSignal # "none"
        /\ \A q \in Runs \ {r} : runs[q].pc = "idle"
        /\ runs[r].callbackCalls = 1

\* C2: a run settled by a process-end event is resolved with the exit code of
\* that event (undefined when it has none), a run settled by a task-end event
\* is resolved with undefined, and the value stays what the first signal made
\* it.
C2_FirstSignalDecides ==
    [][\A r \in Runs :
          /\ runs'[r].settledBy.kind = "process"
                => runs'[r].outcome = Resolved(runs'[r].settledBy.payload)
          /\ runs'[r].settledBy.kind = "task" => runs'[r].outcome = Resolved(Undefined)
          /\ runs[r].settled => runs'[r].outcome = runs[r].outcome]_vars

\* C2 witness: the task-end event came first and a process-end event with the
\* same handle was fired later; the run is resolved with undefined.
C2_Witness ==
    \E r \in Runs :
        /\ runs[r].settledBy.kind = "task"
        /\ lateSignal = "process"
        /\ \A q \in Runs \ {r} : runs[q].pc = "idle"
        /\ runs[r].outcome = Resolved(Undefined)

\* C3: a run settled by an end signal was settled by one whose task definition
\* has type 'quick-it' and the run's own handle; a run with no such signal and
\* no launch failure is pending with both listeners subscribed; and a run that
\* is ready to start or to launch can do so whatever the other runs are doing.
C3_OwnHandleOnly ==
    \A r \in Runs :
        /\ runs[r].settledBy.kind \in {"process", "task"}
              => /\ runs[r].settledBy.type = "quick-it"
                 /\ runs[r].settledBy.runId = runs[r].runId
        /\ runs[r].settled => runs[r].settledBy.kind # "none"
        /\ runs[r].pc = "idle" => ENABLED RunScriptCommand(r, TRUE)
        /\ runs[r].pc = "checking" => ENABLED AvailabilityChecked(r, TRUE)

\* C3 witness: two runs in flight, one settled by its own process-end signal,
\* the other still pending with both listeners subscribed.
C3_Witness ==
    \E r, q \in Runs :
        /\ r # q
        /\ runs[r].pc = "awaiting" /\ runs[r].settledBy.kind = "process"
        /\ runs[q].pc = "awaiting" /\ ~runs[q].settled
        /\ runs[q].endTaskProcessSubscription = "live"
        /\ runs[q].endTaskSubscription = "live"
        /\ runs[q].launch = "fulfilled"

\* C4: once the launch of a run was rejected the run is settled and both
\* listeners are disposed; when the rejection settled the run, the outcome is
\* rejected with the launch error; when a signal had settled it before, the
\* outcome is the resolution that signal made.
C4_LaunchFailure ==
    \A r \in Runs :
        /\ runs[r].launch = "rejected"
              => /\ runs[r].settled
                 /\ runs[r].endTaskProcessSubscription = "disposed"
                 /\ runs[r].endTaskSubscription = "disposed"
                 /\ runs[r].settledBy.kind = "launch"
                       => \E error \in LaunchErrors :
                              /\ runs[r].settledBy.payload = Some(error)
                              /\ runs[r].outcome = Rejected(error)
                 /\ runs[r].settledBy.kind # "launch" => runs[r].outcome.state = "resolved"
        /\ runs[r].settledBy.kind = "launch" => runs[r].launch = "rejected"

\* C4 witness: a launch rejected before any signal: the outcome is rejected
\* and the listeners are disposed.
C4_Witness ==
    \E r \in Runs :
        /\ runs[r].launch = "rejected"
        /\ runs[r].settledBy.kind = "launch"
        /\ runs[r].outcome.state = "rejected"
        /\ runs[r].endTaskSubscription = "disposed"

\* C5: both listeners are subscribed when the launch is requested, stay
\* subscribed while the run is pending, and each is disposed once, by the
\* settlement; a settled run has no live listener.
C5_SubscriptionsReleasedOnce ==
    \A r \in Runs :
        /\ runs[r].launch # "none" => runs[r].liveAtLaunch = {"process", "task"}
        /\ runs[r].launch # "none" /\ ~runs[r].settled
              => /\ runs[r].endTaskProcessSubscription = "live"
                 /\ runs[r].endTaskSubscription = "live"
                 /\ runs[r].processDisposals = 0
                 /\ runs[r].taskDisposals = 0
        /\ runs[r].settled
              => /\ runs[r].endTaskProcessSubscription = "disposed"
                 /\ runs[r].endTaskSubscription = "disposed"
                 /\ runs[r].processDisposals = 1
                 /\ runs[r].taskDisposals = 1

\* C5 witness: a run settled by a task-end signal whose launch failed later and
\* for which a signal was fired again: each listener was disposed once.
C5_Witness ==
    \E r \in Runs :
        /\ runs[r].settledBy.kind = "task"
        /\ runs[r].launch = "rejected"
        /\ lateSignal = "task"
        /\ runs[r].processDisposals = 1
        /\ runs[r].taskDisposals = 1

\* The final notification the outcome of a run calls for.
FinalNotification(outcome) ==
    IF outcome.state = "rejected"
    THEN Message("error", "QuickIt failed to run the selected script", Some(outcome.error))
    ELSE IF outcome.value \in {Undefined, Some(0)}
         THEN Message("info", "Finished", Undefined)
         ELSE Message("warning", "Finished (exit code)", outcome.value)

\* C6: a run that was launched shows, after the "Executing" message, nothing
\* while it is pending and, when its handler has ended (a rejection caught by
\* its catch clause included), the one notification its outcome calls for.
C6_OneFinalNotification ==
    \A r \in Runs :
        runs[r].launch # "none"
            => /\ runs[r].pc \in {"awaiting", "done"}
               /\ runs[r].pc = "awaiting"
                     => runs[r].notifications = <<Message("info", "Executing", Undefined)>>
               /\ runs[r].pc = "done"
                     => /\ runs[r].outcome.state # "pending"
                        /\ runs[r].notifications =
                               <<Message("info", "Executing", Undefined),
                                 FinalNotification(runs[r].outcome)>>

\* C6 witness: two handlers have ended, one with the warning and one with
\* the error notification.
C6_Witness ==
    \E r, q \in Runs :
        /\ runs[r].pc = "done" /\ runs[r].outcome = Resolved(Some(1))
        /\ runs[r].notifications[2].level = "warning"
        /\ runs[q].pc = "done" /\ runs[q].outcome.state = "rejected"
        /\ runs[q].notifications[2].level = "error"

(***************************************************************************)
(* Properties of the descriptor registry                                   *)
(***************************************************************************)

\* C7: a call of registerInterpreter whose extension is a spelling of a
\* built-in extension throws, whatever the command and the label, returns no
\* Disposable, leaves customInterpreters as it was and fires no refresh.
\* Checked under SpecBuiltin.
C7_BuiltinExtensionRejected ==
    [][lastOp'.op = "register" /\ lastOp'.builtinSpelling
          => /\ lastOp'.threw
             /\ lastOp'.handle = 0
             /\ lastOp'.refreshes = 0
             /\ handles' = handles
             /\ customInterpreters' = customInterpreters]_vars

\* C7 witness: such a call was made, and threw, while an interpreter was
\* registered; the spellings tried include padded, dotless and mixed-case ones.
C7_Witness ==
    /\ lastOp.op = "register"
    /\ lastOp.builtinSpelling
    /\ lastOp.threw
    /\ DOMAIN customInterpreters # {}
    /\ {<<" ", "P", "y">>, <<".", "z", "S", "H", " ">>, <<"p", "s", "1">>} \subseteq BuiltinSpellings

\* The registrations made after the h-th one for the same extension.
LaterRegistrations(h) ==
    {j \in h + 1..Len(handles) : handles[j].extension = handles[h].extension}

\* The last registration made for an extension.
LastRegistration(extension) ==
    handles[CHOOSE j \in 1..Len(handles) :
                /\ handles[j].extension = extension
                /\ \A k \in j + 1..Len(handles) : handles[k].extension # extension]

\* C8: disposing a handle changes the registry only when the entry of its
\* extension is the one this handle registered, command and label; an entry
\* that a later registration replaced by another one (be it the same command
\* under another label) stays, as does everything when the entry is gone; the
\* entry of another extension is never touched.  Checked under SpecRegistry.
C8_StaleDisposeKeepsEntry ==
    [][lastOp'.op = "dispose"
          => LET h == lastOp'.handle
                 extension == handles[h].extension
             IN  /\ customInterpreters' # customInterpreters
                       => /\ extension \in DOMAIN customInterpreters
                          /\ customInterpreters[extension]
                                 = [command |-> handles[h].command, label |-> handles[h].label]
                 /\ \A other \in DOMAIN customInterpreters \ {extension} :
                       /\ other \in DOMAIN customInterpreters'
                       /\ customInterpreters'[other] = customInterpreters[other]
                 /\ DOMAIN customInterpreters' \subseteq DOMAIN customInterpreters]_vars

\* C9: when the last registration for an extension has a command different
\* from the one of an older handle and its entry is in the registry, disposing
\* the older handle changes nothing: the entry keeps the newer command, the
\* lookup of a file of that extension yields the newer command, and no refresh
\* is fired.  Checked under SpecRegistry.
C9_DisposeAfterOtherCommand ==
    [][lastOp'.op = "dispose"
          => LET h == lastOp'.handle
                 extension == handles[h].extension
             IN  (/\ LaterRegistrations(h) # {}
                  /\ extension \in DOMAIN customInterpreters
                  /\ LastRegistration(extension).command # handles[h].command)
                     => /\ customInterpreters' = customInterpreters
                        /\ customInterpreters'[extension].command = LastRegistration(extension).command
                        /\ lastOp'.refreshes = 0
                        /\ \A file \in FileInputs :
                              normalizeExtension(extname(file)) = extension
                                  => /\ resolveDescriptorForUri(customInterpreters', file) # Undefined
                                     /\ resolveDescriptorForUri(customInterpreters', file)[1].defaultInterpreters
                                            = <<LastRegistration(extension).command>>]_vars

\* C9 witness: the first handle was disposed after a second registration for
\* its extension with another command; the entry of the second is in place.
C9_Witness ==
    /\ lastOp.op = "dispose"
    /\ lastOp.handle = 1
    /\ lastOp.refreshes = 0
    /\ Len(handles) = 2
    /\ handles[2].extension = handles[1].extension
    /\ handles[2].command # handles[1].command
    /\ handles[1].extension \in DOMAIN customInterpreters
    /\ customInterpreters[handles[1].extension].command = handles[2].command

\* C10 as stated: the lookup of a file yields the built-in descriptor of its
\* normalized extension; else, when the registry has an entry for it, a
\* descriptor whose only default interpreter is the command of the last
\* registration for the extension and whose label is the trimmed label of that
\* registration, or "Custom (<ext>)" when it gave no label; else undefined.
C10_LabelAsSupplied ==
    \A file \in FileInputs :
        LET extension == normalizeExtension(extname(file))
            descriptor == resolveDescriptorForUri(customInterpreters, file)
        IN  IF extension \in BuiltinExtensions
            THEN /\ descriptor = Some(BUILTIN_BY_EXTENSION(extension))
                 /\ descriptor[1].extension = extension
            ELSE IF extension \in DOMAIN customInterpreters
            THEN descriptor =
                     Some(Descriptor(extension,
                                     IF LastRegistration(extension).label = Undefined
                                     THEN CustomLabel(extension)
                                     ELSE trim(LastRegistration(extension).label[1]),
                                     Undefined,
                                     <<LastRegistration(extension).command>>,
                                     "interpreter path"))
            ELSE descriptor = Undefined

\* C10, amended: as above, with the label "Custom (<ext>)" also when the label
\* given is empty after trimming.  Checked under SpecRegistry.
C10_LookupAfterRegistrations ==
    \A file \in FileInputs :
        LET extension == normalizeExtension(extname(file))
            descriptor == resolveDescriptorForUri(customInterpreters, file)
        IN  IF extension \in BuiltinExtensions
            THEN /\ descriptor = Some(BUILTIN_BY_EXTENSION(extension))
                 /\ descriptor[1].extension = extension
            ELSE IF extension \in DOMAIN customInterpreters
            THEN descriptor =
                     Some(Descriptor(extension,
                                     IF \/ LastRegistration(extension).label = Undefined
                                        \/ trim(LastRegistration(extension).label[1]) = <<>>
                                     THEN CustomLabel(extension)
                                     ELSE trim(LastRegistration(extension).label[1]),
                                     Undefined,
                                     <<LastRegistration(extension).command>>,
                                     "interpreter path"))
            ELSE descriptor = Undefined

\* C10 witness: after two registrations for .rb and a disposal the entry of
\* the second, registered with a blank label, is found for a file written
\* a.RB, under the label "Custom (.rb)"; a.go has no descriptor.
C10_Witness ==
    /\ lastOp.op = "dispose"
    /\ Len(handles) = 2
    /\ handles[1].extension = <<".", "r", "b">>
    /\ handles[2] = [extension |-> <<".", "r", "b">>, command |-> <<"irb">>, label |-> Some(<<" ">>)]
    /\ resolveDescriptorForUri(customInterpreters, <<"/", "s", "/", "a", ".", "R", "B">>)
           = Some(Descriptor(<<".", "r", "b">>, <<"Custom (", ".", "r", "b", ")">>, Undefined,
                             <<(<<"irb">>)>>, "interpreter path"))
    /\ resolveDescriptorForUri(customInterpreters, <<"a", ".", "g", "o">>) = Undefined

\* C16: whatever customInterpreters holds, a call of registerInterpreter whose
\* extension or whose command is empty after trimming throws, returns no
\* Disposable, leaves customInterpreters as it is and fires no refresh; and
\* the last call, when it threw, returned no Disposable and fired no refresh.
\* Checked under SpecRegistry.
C16_BlankArgumentRejected ==
    /\ \A extension \in ExtensionInputs, command \in CommandInputs, label \in LabelInputs :
          (trim(extension) = <<>> \/ trim(command) = <<>>)
              => LET result == registerInterpreter(customInterpreters, extension, command, label)
                 IN  /\ result.threw
                     /\ result.disposable = Undefined
                     /\ result.refreshes = 0
                     /\ result.customInterpreters = customInterpreters
    /\ lastOp.op = "register" /\ lastOp.threw
          => /\ lastOp.handle = 0
             /\ lastOp.refreshes = 0

\* C16 witness: a call with a blank extension or a blank command (the only
\* calls that throw for an extension that spells no built-in one) threw while
\* an interpreter was registered.
C16_Witness ==
    /\ lastOp.op = "register"
    /\ lastOp.threw
    /\ ~lastOp.builtinSpelling
    /\ Len(handles) = 1
    /\ DOMAIN customInterpreters = {handles[1].extension}
    /\ \E extension \in ExtensionInputs : trim(extension) = <<>>
    /\ \E command \in CommandInputs : trim(command) = <<>>

\* C17: every key of customInterpreters is not empty, starts with a dot, has
\* no upper-case letter and no blank around it and is no built-in extension;
\* every command stored is not empty and has no blank around it; and a lookup
\* finds a descriptor exactly for the files whose normalized extension is a
\* key of one of the two tables, the descriptor of that extension, however the
\* extension is written in the file name.  Checked under SpecRegistry.
C17_CanonicalKeys ==
    /\ \A key \in DOMAIN customInterpreters :
          /\ key # <<>>
          /\ Head(key) = "."
          /\ \A i \in 1..Len(key) : key[i] \notin DOMAIN LowerOf \cup WhiteSpace
          /\ key \notin BuiltinExtensions
          /\ customInterpreters[key].command # <<>>
          /\ Head(customInterpreters[key].command) \notin WhiteSpace
          /\ customInterpreters[key].command[Len(customInterpreters[key].command)] \notin WhiteSpace
    /\ \A file \in FileInputs :
          LET descriptor == resolveDescriptorForUri(customInterpreters, file)
              extension == normalizeExtension(extname(file))
          IN  /\ descriptor # Undefined
                    <=> extension \in BuiltinExtensions \cup DOMAIN customInterpreters
              /\ descriptor # Undefined => descriptor[1].extension = extension

\* C17 witness: registrations written ".Rb " and "go", the first with the
\* command " ruby ": the keys are .rb and .go, the command is ruby, and the
\* file a.RB has the descriptor of .rb.
C17_Witness ==
    /\ DOMAIN customInterpreters = {<<".", "r", "b">>, <<".", "g", "o">>}
    /\ customInterpreters[<<".", "r", "b">>].command = <<"ruby">>
    /\ resolveDescriptorForUri(customInterpreters, <<"/", "s", "/", "a", ".", "R", "B">>) # Undefined
    /\ resolveDescriptorForUri(customInterpreters, <<"/", "s", "/", "a", ".", "R", "B">>)[1].extension
           = <<".", "r", "b">>

\* C18: a call of registerInterpreter that returns fires one refresh; a
\* disposal fires one refresh when it removed the entry of its extension and
\* none when it left customInterpreters as it was.  Checked under SpecRegistry.
C18_RefreshOnChange ==
    [][/\ handles' # handles
          => /\ lastOp'.op = "register"
             /\ ~lastOp'.threw
             /\ lastOp'.refreshes = 1
       /\ lastOp'.op = "register" /\ ~lastOp'.threw => lastOp'.refreshes = 1
       /\ lastOp'.op = "dispose"
          => IF customInterpreters' # customInterpreters
             THEN /\ lastOp'.refreshes = 1
                  /\ handles[lastOp'.handle].extension \in DOMAIN customInterpreters
                  /\ customInterpreters' =
                         MapDelete(customInterpreters, handles[lastOp'.handle].extension)
             ELSE lastOp'.refreshes = 0]_vars

\* C18 witness: a handle was disposed a second time, after its first disposal
\* had removed its entry: nothing to remove, no refresh.
C18_Witness ==
    /\ lastOp.op = "dispose"
    /\ lastOp.refreshes = 0
    /\ Len(handles) = 1
    /\ customInterpreters = <<>>

(***************************************************************************)
(* Properties of the settings reads, checked under SpecSettings            *)
(***************************************************************************)

\* The value of a key at user level: the global value when it is defined,
\* else the built-in default, trimmed; none when neither is defined or the
\* trimmed value is empty.
UserLevelValue(setting) ==
    LET chosen == IF setting.globalValue # Undefined THEN setting.globalValue ELSE setting.defaultValue
    IN  IF chosen = Undefined \/ trim(chosen[1]) = <<>> THEN Undefined ELSE Some(trim(chosen[1]))

\* C11: whatever the default, global, workspace and workspace-folder values
\* of the key read, the value a settings read returns is the user-level value
\* of the key; it is no workspace or workspace-folder value and does not
\* depend on them.
C11_OnlyUserLevelValue ==
    settingReads.last # Undefined
        => /\ settingReads.last[1].value = UserLevelValue(settingReads.last[1].setting)
           /\ settingReads.last[1].value \notin {Some(<<"workspace">>), Some(<<"folder">>)}

\* Whether the step is a settings read, and whether the key it read has a
\* workspace or workspace-folder value.
IsSettingsRead == settingReads'.reads = settingReads.reads + 1
ReadSawOverride == settingReads'.overrides = settingReads.overrides + 1

\* C19: the warning is shown at most once; the first settings read of a key
\* that has a workspace or workspace-folder value shows it, and no other step
\* shows a warning.
C19_WarningOnceOnFirstOverride ==
    [][/\ settingReads'.warnings <= 1
       /\ IsSettingsRead /\ ReadSawOverride /\ settingReads.overrides = 0
              => settingReads'.warnings = settingReads.warnings + 1
       /\ ~(IsSettingsRead /\ ReadSawOverride /\ settingReads.overrides = 0)
              => settingReads'.warnings = settingReads.warnings]_vars

\* C19 witness: a read without override, then two reads of keys with a
\* workspace value: one warning.
C19_Witness ==
    /\ settingReads.reads = 3
    /\ settingReads.overrides = 2
    /\ settingReads.warnings = 1
    /\ hasShownWorkspaceConfigurationWarning
    /\ settingReads.last[1].setting.workspaceFolderValue # Undefined

(***************************************************************************)
(* Properties of the interpreter resolver, checked under SpecResolve       *)
(***************************************************************************)

\* C12: a task exists only in an invocation that resolved an interpreter
\* command and whose availability check of that command answered yes, and it
\* runs that command; an invocation that ended without a task resolved no
\* command, or the check of the one it resolved (configured or default)
\* answered no: it showed the error of its case and nothing else, and created
\* no run handle.  An invocation still resolving or checking has neither.
C12_LaunchOnlyAfterCheck ==
    /\ resolution.task # Undefined
          => /\ resolution.pc = "launched"
             /\ resolution.interpreterCommand # Undefined
             /\ resolution.check = Some(Probe(resolution.interpreterCommand[1], TRUE))
             /\ resolution.task[1].interpreter = resolution.interpreterCommand[1]
             /\ resolution.runId = Some(resolution.task[1].runId)
    /\ resolution.pc = "launched" => resolution.task # Undefined
    /\ resolution.pc \in {"probing", "checking"}
          => /\ resolution.task = Undefined
             /\ resolution.runId = Undefined
             /\ resolution.notifications = <<>>
    /\ resolution.pc = "done" /\ resolution.item # Undefined
          => /\ resolution.task = Undefined
             /\ resolution.runId = Undefined
             /\ IF resolution.interpreterCommand = Undefined
                THEN /\ resolution.check = Undefined
                     /\ resolution.notifications =
                            <<Message("error", "No interpreter found", Undefined)>>
                ELSE /\ resolution.check = Some(Probe(resolution.interpreterCommand[1], FALSE))
                     /\ resolution.notifications =
                            <<Message("error", "Interpreter was not found on PATH.", Undefined)>>

\* C12 witness: a configured override was resolved and its check answered no:
\* the invocation ended with the error and without a task.
C12_Witness ==
    /\ resolution.pc = "done"
    /\ resolution.configuredValue = Some(<<"user">>)
    /\ resolution.interpreterCommand = Some(<<"user">>)
    /\ resolution.check = Some(Probe(<<"user">>, FALSE))
    /\ resolution.task = Undefined

\* C13: when the descriptor names a key whose user-level value is not empty,
\* the command resolved is that value and no candidate is probed; candidates
\* are probed only for a descriptor without key or when the settings read
\* returned nothing.
C13_ConfiguredValueSkipsProbes ==
    /\ (/\ resolution.setting # Undefined
        /\ UserLevelValue(resolution.setting[1]) # Undefined)
          => /\ resolution.probes = <<>>
             /\ resolution.pc \in {"checking", "launched", "done"}
             /\ resolution.interpreterCommand = UserLevelValue(resolution.setting[1])
    /\ (resolution.probes # <<>> \/ resolution.pc = "probing")
          => \/ resolution.item[1].descriptor.interpreterSetting = Undefined
             \/ resolution.configuredValue = Undefined

\* C13 witness: the key of the PowerShell descriptor has a padded user value
\* and a workspace value: the trimmed user value was resolved and launched, and
\* nothing was probed.
C13_Witness ==
    /\ resolution.pc = "launched"
    /\ resolution.item[1].descriptor.interpreterSetting = Some("interpreters.powershell")
    /\ resolution.setting[1].globalValue = Some(<<" ", "user", " ">>)
    /\ resolution.setting[1].workspaceValue # Undefined
    /\ resolution.interpreterCommand = Some(<<"user">>)
    /\ resolution.probes = <<>>

\* C14: when the settings read returned nothing (or the descriptor names no
\* key), the probes made are the first candidates of the descriptor in list
\* order, every probe before the last answered no, the command resolved is the
\* candidate of the last probe when that answered yes, and none is resolved
\* exactly when every candidate was probed and answered no.
C14_FirstAvailableCandidate ==
    (resolution.item # Undefined /\ resolution.configuredValue = Undefined)
        => LET candidates == resolution.item[1].descriptor.defaultInterpreters
               probes == resolution.probes
           IN  /\ Len(probes) <= Len(candidates)
               /\ \A i \in 1..Len(probes) : probes[i].command = candidates[i]
               /\ \A i \in 1..Len(probes) - 1 : ~probes[i].available
               /\ resolution.pc = "probing"
                     => /\ \A i \in 1..Len(probes) : ~probes[i].available
                        /\ resolution.candidate = Len(probes) + 1
                        /\ resolution.candidate <= Len(candidates)
               /\ resolution.pc \in {"checking", "launched", "done"}
                     => IF resolution.interpreterCommand # Undefined
                        THEN /\ probes # <<>>
                             /\ probes[Len(probes)].available
                             /\ resolution.interpreterCommand = Some(probes[Len(probes)].command)
                        ELSE /\ Len(probes) = Len(candidates)
                             /\ \A i \in 1..Len(probes) : ~probes[i].available

\* C14 witness: for a .ps1 script pwsh was probed first and answered no,
\* powershell second and answered yes: powershell is resolved.
C14_Witness ==
    /\ resolution.pc = "checking"
    /\ resolution.item[1].descriptor.extension = <<".", "p", "s", "1">>
    /\ resolution.probes = <<Probe(<<"pwsh">>, FALSE), Probe(<<"powershell">>, TRUE)>>
    /\ resolution.interpreterCommand = Some(<<"powershell">>)

(***************************************************************************)
(* Properties of the command line, checked under SpecCommandLine           *)
(***************************************************************************)

\* The form the claim gives the quoted path: on POSIX single-quoted with each
\* ' written as '\'', on Windows double-quoted with each " doubled.
QuotedForm(platform, scriptPath) ==
    IF platform = "win32"
    THEN <<"\"">> \o replaceAll(scriptPath, "\"", <<"\"", "\"">>) \o <<"\"">>
    ELSE <<"'">> \o replaceAll(scriptPath, "'", <<"'", "\\", "'", "'">>) \o <<"'">>

\* C15: the command line built is the interpreter, one space (for the
\* PowerShell descriptor the flags -NoProfile -ExecutionPolicy Bypass -File
\* between spaces) and the quoted path, in the form of the platform; and the
\* shell of the platform reads the quoted path back as one argument, the path,
\* whatever characters the path has.
C15_QuotedPathRoundTrip ==
    built # Undefined
        => LET call == built[1]
               prefix == IF call.descriptor.extension = <<".", "p", "s", "1">>
                         THEN call.interpreter \o PowerShellFlags
                         ELSE call.interpreter \o <<" ">>
               quoted == SubSeq(call.commandLine, Len(prefix) + 1, Len(call.commandLine))
           IN  /\ Len(call.commandLine) > Len(prefix)
               /\ SubSeq(call.commandLine, 1, Len(prefix)) = prefix
               /\ quoted = QuotedForm(call.platform, call.scriptPath)
               /\ ShellWords(call.platform, quoted) = <<call.scriptPath>>

(***************************************************************************)
(* Properties of the script names, checked under SpecValidate              *)
(***************************************************************************)

\* The names the claim has rejected, `name` being the name without the blanks
\* around it and `extension` the extension in canonical form: the base name
\* is the name without its last extension, and a name that starts with its
\* only dot has no extension.
NameIsRejected(name, extension) ==
    \/ name = <<>>
    \/ name \in {<<".">>, <<".", ".">>}
    \/ \E i \in 1..Len(name) : name[i] \in {"/", "\\"}
    \/ \E i \in 1..Len(name) : name[i] \in {"<", ">", ":", "\"", "|", "?", "*", "\t"}
    \/ name[Len(name)] \in {" ", "."}
    \/ toLowerCase(name) = extension
    \/ toLowerCase(parseName(name)) \in WINDOWS_RESERVED_BASENAMES
    \/ /\ extname(name) # <<>>
       /\ toLowerCase(extname(name)) # extension

\* C20: validateScriptNameInput returns a message for every name that, without
\* the blanks around it, is empty, is . or .., has a slash or backslash, has a
\* control or reserved character, ends in a blank or period, is the extension
\* alone, has a reserved base name in any case, or has an extension other
\* than the expected one; it returns undefined for every other name, which is
\* a name without extension or with the expected extension in any case.
C20_NameValidation ==
    validated # Undefined
        => LET name == trim(validated[1].value)
               extension == normalizeExtension(validated[1].extension)
           IN  IF NameIsRejected(name, extension)
               THEN validated[1].result # Undefined
               ELSE /\ validated[1].result = Undefined
                    /\ \/ extname(name) = <<>>
                       \/ toLowerCase(extname(name)) = extension

\* C20 witness: " CON.PS1 " typed for .ps1 is rejected as reserved.
C20_Witness ==
    /\ validated # Undefined
    /\ validated[1].value = <<" ", "C", "O", "N", ".", "P", "S", "1", " ">>
    /\ validated[1].extension = <<".", "p", "s", "1">>
    /\ validated[1].result = Some(<<"Name is reserved on Windows.">>)

(***************************************************************************)
(* Properties of the scripts view                                          *)
(***************************************************************************)

\* An entry of the directory is shown: it is a file, and an interpreter is
\* known for the lower-case form of its extension.
IsShown(entry, registry) ==
    /\ entry.type = FileType.File
    /\ extname(entry.name) # <<>>
    /\ toLowerCase(extname(entry.name)) \in BuiltinExtensions \cup DOMAIN registry

\* One name is not behind the other when their case is ignored: the names
\* agree as far as the shorter one goes, or the first character in which they
\* differ comes first in the one.
NotBehindIgnoringCase(one, other) ==
    LET a == toLowerCase(one)
        b == toLowerCase(other)
        differing == {i \in 1..Len(a) : i <= Len(b) /\ a[i] # b[i]}
        first == CHOOSE i \in differing : \A j \in differing : i <= j
    IN  IF differing = {}
        THEN Len(a) <= Len(b)
        ELSE PrimaryWeight(a[first]) < PrimaryWeight(b[first])

\* C21: a call of getChildren() that lists the directory returns one item for
\* each entry that is a file of an extension with a descriptor, built-in or
\* registered at the time, with that descriptor, and nothing else; the items
\* are in the order of their file names, case ignored; a call of getChildren
\* for a script item returns the empty list.  Checked under SpecListing.
C21_ListingShowsScripts ==
    [][tree'.last # tree.last /\ tree'.last # Undefined
          => LET call == tree'.last[1]
                 entries == call.entries[1]
                 shown == {i \in 1..Len(entries) : IsShown(entries[i], customInterpreters)}
             IN  IF call.element # Undefined
                 THEN call.items = <<>>
                 ELSE call.entries # Undefined
                      => /\ Len(call.items) = Cardinality(shown)
                         /\ \A i \in shown :
                               \E j \in 1..Len(call.items) :
                                  /\ call.items[j].fsPath =
                                         call.scriptsDirectory[1].fsPath \o <<"/">> \o entries[i].name
                                  /\ call.items[j].descriptor.extension =
                                         toLowerCase(extname(entries[i].name))
                                  /\ call.items[j].descriptor.extension \notin BuiltinExtensions
                                     => call.items[j].descriptor.defaultInterpreters =
                                            <<customInterpreters[call.items[j].descriptor.extension].command>>
                         /\ \A j \in 1..Len(call.items), k \in 1..Len(call.items) :
                               j < k => NotBehindIgnoringCase(basename(call.items[j].fsPath),
                                                              basename(call.items[k].fsPath))]_vars

\* C21 witness: the directory held b.ps1, c.txt and A.sh in that order and no
\* interpreter was registered; the view shows A.sh, then b.ps1.
C21_Witness ==
    /\ tree.last # Undefined
    /\ tree.last[1].entries =
           Some(<<Entry(<<"b", ".", "p", "s", "1">>, FileType.File),
                  Entry(<<"c", ".", "t", "x", "t">>, FileType.File),
                  Entry(<<"A", ".", "s", "h">>, FileType.File)>>)
    /\ Len(tree.last[1].items) = 2
    /\ basename(tree.last[1].items[1].fsPath) = <<"A", ".", "s", "h">>
    /\ basename(tree.last[1].items[2].fsPath) = <<"b", ".", "p", "s", "1">>
    /\ customInterpreters = <<>>

\* C24: of the calls of getChildren() that failed since the last listing (or
\* since the start) exactly the first showed the error message, and each of
\* them returned the empty list; the flag hasShownReadError is set exactly
\* while such calls exist, so that nothing but a listing re-arms the message.
\* Checked under SpecTree.
C24_ReadErrorShownOnce ==
    /\ tree.failures > 0 => tree.messages = 1 /\ tree.hasShownReadError
    /\ tree.failures = 0 => tree.messages = 0 /\ ~tree.hasShownReadError
    /\ tree.last # Undefined /\ tree.last[1].error # Undefined
       => /\ tree.failures > 0
          /\ tree.last[1].items = <<>>
          /\ tree.last[1].messages =
                 IF tree.failures = 1
                 THEN <<Message("error", "QuickIt failed to load scripts", tree.last[1].error)>>
                 ELSE <<>>
    /\ tree.last # Undefined /\ tree.last[1].error = Undefined => tree.last[1].messages = <<>>

\* C24 witness: two calls failed one after the other; the second showed
\* nothing.
C24_Witness ==
    /\ tree.failures = 2
    /\ tree.messages = 1
    /\ tree.last # Undefined
    /\ tree.last[1].error # Undefined
    /\ tree.last[1].messages = <<>>

(***************************************************************************)
(* Properties of normalizeScriptFileName, checked under SpecNormalize      *)
(***************************************************************************)

\* The text ends in the suffix when the case of the letters is ignored.
EndsWithIgnoringCase(text, suffix) ==
    /\ Len(suffix) <= Len(text)
    /\ toLowerCase(SubSeq(text, Len(text) - Len(suffix) + 1, Len(text))) = toLowerCase(suffix)

\* What C22 says of one call, but for idempotence: the extension is appended
\* to a trimmed name that does not end in it, a trimmed name whose extension
\* is the expected one in any case is returned as it is, and the result for a
\* name that validateScriptNameInput accepts ends in the extension.
NormalizedAsExpected(call) ==
    LET name == trim(call.rawName)
        extension == normalizeExtension(call.extension)
    IN  /\ ~EndsWithIgnoringCase(name, extension) => call.result = name \o extension
        /\ extname(name) # <<>> /\ toLowerCase(extname(name)) = extension => call.result = name
        /\ call.result \in {name, name \o extension}
        /\ validateScriptNameInput(call.rawName, call.extension) = Undefined
           => EndsWithIgnoringCase(call.result, extension)

IsPendingRun(r) == runs[r].pc = "awaiting" /\ runs[r].outcome.state = "pending"

\* One step of a run: a run that is over stays over with the outcome and the
\* notifications it has, a settled outcome stays, a launched run keeps its
\* handle and is not launched again, and a pending run stops being pending
\* only by a signal with its handle or by the failure of its launch, and then
\* goes on to its end only.
RunStep(r) ==
    /\ runs[r].pc = "done"
       => /\ runs'[r].pc = "done"
          /\ runs'[r].outcome = runs[r].outcome
          /\ runs'[r].notifications = runs[r].notifications
    /\ runs[r].outcome.state # "pending" => runs'[r].outcome = runs[r].outcome
    /\ runs[r].launch # "none"
       => /\ runs'[r].launch # "none"
          /\ runs'[r].runId = runs[r].runId
          /\ runs'[r].pc \in {"awaiting", "done"}
    /\ runs[r].outcome.state = "pending" /\ runs'[r].outcome.state # "pending"
       => /\ IsPendingRun(r)
          /\ runs'[r].pc = "awaiting"
          /\ runs'[r].settledBy.kind \in {"process", "task", "launch"}
          /\ runs'[r].settledBy.type = "quick-it"
          /\ runs'[r].settledBy.runId = runs[r].runId
    /\ IsPendingRun(r) => runs'[r].pc = "awaiting"
    /\ runs[r].pc = "awaiting" /\ runs'[r].pc # "awaiting" => runs'[r].pc = "done"

\* While run r is pending, another run q can take its next step: start,
\* launch, be resolved by a signal with its own handle (which leaves r
\* pending), and end.
CanGoOnBeside(q, r) ==
    /\ runs[q].pc = "idle" => ENABLED RunScriptCommand(q, TRUE)
    /\ runs[q].pc = "resolving" => ENABLED InterpreterResolved(q, TRUE)
    /\ runs[q].pc = "checking" => ENABLED AvailabilityChecked(q, TRUE)
    /\ IsPendingRun(q)
       => ENABLED (/\ FireEndTaskProcess(
                         [defined |-> TRUE, type |-> "quick-it", runId |-> runs[q].runId], Some(0))
                   /\ runs'[q].outcome = Resolved(Some(0))
                   /\ runs'[r] = runs[r])
    /\ runs[q].pc = "awaiting" /\ runs[q].outcome.state # "pending" => ENABLED RunScriptResume(q)

\* C23: a run is over once and for all, is launched once and leaves the
\* pending state only by a signal with its handle or by the failure of its
\* launch; a run that such a signal has settled comes to its end; and a run
\* that stays pending keeps no other run from starting, launching, being
\* resolved and ending.
C23_RunsEndOnlyBySignal ==
    /\ [][\A r \in Runs : RunStep(r)]_vars
    /\ [](\A r \in Runs, q \in Runs : IsPendingRun(r) /\ q # r => CanGoOnBeside(q, r))
    /\ \A r \in Runs :
          (runs[r].pc = "awaiting" /\ runs[r].outcome.state # "pending") ~> (runs[r].pc = "done")

\* C23 witness: one run was launched and has received no signal; another run,
\* started after it, is over, resolved by the process-end signal of its task.
C23_Witness ==
    \E r \in Runs, q \in Runs :
        /\ IsPendingRun(r)
        /\ runs[r].launch = "fulfilled"
        /\ runs[q].pc = "done"
        /\ runs[q].outcome = Resolved(Some(0))
        /\ runs[q].settledBy.kind = "process"
        /\ Len(runs[q].notifications) = 2

(***************************************************************************)
(* Properties of the watcher, checked under SpecWatch                      *)
(***************************************************************************)

\* C25: at most one watcher made by watchScriptsDirectory is live, and it is
\* the one in scriptsDirectoryWatcher: every watcher made before it is
\* disposed.
C25_OneLiveWatcher ==
    \A w \in 1..Len(watching.watchers) :
        watching.watchers[w] = "live" => w = watching.scriptsDirectoryWatcher

(***************************************************************************)
(* Properties of quick-it.addScript, checked under SpecAdd                 *)
(***************************************************************************)

\* C26: an invocation that wrote a file which was there when it was written
\* had the answer 'Overwrite' to its confirmation; one that wrote had found no
\* file or had that answer; and one that ended at a dismissed pick, name or
\* confirmation wrote nothing and fired no refresh.
C26_NoOverwriteWithoutConsent ==
    \A a \in Adds :
        /\ adding[a].replaced # Undefined => adding[a].overwriteSelection = Some("Overwrite")
        /\ adding[a].wrote
           => \/ adding[a].exists = Some(FALSE)
              \/ adding[a].overwriteSelection = Some("Overwrite")
        /\ adding[a].pc = "done" /\ adding[a].notifications = <<>>
           => /\ ~adding[a].wrote
              /\ adding[a].refreshes = 0

====
